---- MODULE Spec2Model ----
(***************************************************************************)
(* AutoGun: the macro rule engine (src/src/core/macro_engine.py) driven by *)
(* the handlers of the application (src/main.py) and of the main window    *)
(* (src/src/gui/main_window.py), the memory reader                         *)
(* (src/src/core/memory_reader.py), the trigger bot                        *)
(* (src/src/core/trigger_bot.py) and the AutoJump                          *)
(* (src/src/core/auto_jump.py).  Spec is the application with its macro    *)
(* handlers; EngineSpec, UpdateSpec, ReaderSpec, TriggerSpec and JumpSpec  *)
(* are the macro engine, the memory reader, the trigger bot and the        *)
(* AutoJump with their public methods called in any order, JumpSpec with   *)
(* the burst threads of the AutoJump; EnableSpec is enable() and disable() *)
(* of the trigger bot and of the AutoJump; TrackSpec is the application    *)
(* with its timer, its connection and the check boxes of the two, and      *)
(* FairTrackSpec is TrackSpec with a timer that keeps firing.              *)
(*                                                                         *)
(* Python dictionaries are functions on a finite domain; a dictionary      *)
(* built by read_all_ammo is iterated in ascending slot order, because     *)
(* read_all_ammo inserts the slots in the order 1..6.  Python's None for   *)
(* current_preset is the string None below.  Rule lists are 1-based        *)
(* sequences, current_rule_idx stays 0-based as in the source.             *)
(***************************************************************************)
EXTENDS Integers, Sequences, FiniteSets, Bags, TLC

VARIABLES
    enabled,          \* MacroEngine.enabled
    current_preset,   \* MacroEngine.current_preset
    presets,          \* MacroEngine.presets
    last_ammo,        \* MacroEngine.last_ammo
    last_weapon_id,   \* MacroEngine.last_weapon_id
    rule_rotation,    \* MacroEngine.rule_rotation
    config_presets,   \* the value under 'macros.presets' of the configuration
    has_presets_key,  \* whether the configuration has the key 'macros.presets'
    setup_done,       \* AmmoTracker.setup_gui has run
    macros_checkbox,  \* MainWindow.macros_enabled_checkbox.isChecked()
    preset_combo,     \* MainWindow.preset_combo.currentText()
    keys,             \* the keys passed to keyboard.send by the last handler
    log,              \* what the last handler logged about a swap
    last_tick,        \* whether the engine handled the latest update tick, and its snapshot if so
    run,              \* the swap targets of the shots of one slot since the cursors were reset
    h,                \* the last handler, and what it returned or found
    reader,           \* the MemoryReader: the fields of self
    call,             \* the last call of the reader: method, argument, memory read, result
    last_good,        \* per slot, the value of its latest full read by read_all_ammo
    trigger,          \* the TriggerBot: the fields of self
    events,           \* the button messages posted to the game window, oldest first
    tcall,            \* the last call of the trigger bot: method, state before, what it posted
    jump,             \* the AutoJump: the fields of self
    workers,          \* the burst threads in flight, a bag: threads have no order
    jcall,            \* the last step of the AutoJump or of a burst thread, and what it found
    last_key,         \* whether the jump key was down at the previous update tick
    held,             \* whether it was down on every tick since an enabled tick read it down
    ucall,            \* the last update() called with a weapon: the snapshot, the weapon given and taken
    app,              \* the AmmoTracker: is_tracking, and 'memory_reading.auto_reconnect' of the configuration
    process,          \* the game process: whether it runs, and whether the reader holds one that is gone
    ptick             \* the last tick of update_tracking: what it found and what it called

vars == <<enabled, current_preset, presets, last_ammo, last_weapon_id,
          rule_rotation, config_presets, has_presets_key, setup_done,
          macros_checkbox, preset_combo, keys, log, last_tick, run, h,
          reader, call, last_good, trigger, events, tcall,
          jump, workers, jcall, last_key, held, ucall, app, process, ptick>>

-----------------------------------------------------------------------------
(* Bounds of the model *)

MaxClip == 1
MaxReserve == 1
MaxShots == 4
MaxEvents == 3
MaxWorkers == 2

(* Program constants *)

MinSlot == 1
MaxSlot == 6
InitialWeaponId == 1
NoWeapon == 0
DefaultRepeatCount == 1
NoFallback == 0
knife_slot == 3

None == "None"
EmptyDict == <<>>

(* The slots whose memory reads can succeed in the modelled session. *)
ReadableSlots == {1, 2, 3}

Clips == 0..MaxClip
Reserves == {MaxReserve}

(* The (clip, reserve) pairs a slot is read with: every weapon has a       *)
(* reserve, so that an empty clip always comes with reserve ammunition.    *)
AmmoValues == Clips \X Reserves

(* Every dictionary read_all_ammo can return: slot -> (clip, reserve). *)
Snapshots == UNION {[D -> AmmoValues] : D \in SUBSET ReadableSlots}

-----------------------------------------------------------------------------
(* Configuration *)

(* dict.get(key, default) *)
Get(d, key, default) == IF key \in DOMAIN d THEN d[key] ELSE default

(* keybindings.weapon_slot_N as saved by the key bindings window. *)
keybindings == (3 :> "q")

(* The presets of the configuration file. *)
ConfigPresets ==
    [ rot |->
        [rules |-> <<
            [from |-> 1, to |-> 2, check_ammo |-> FALSE, quick_switch |-> FALSE,
             repeat_count |-> 2],
            [from |-> 1, to |-> 4, check_ammo |-> FALSE, quick_switch |-> TRUE,
             repeat_count |-> 1] >>],
      gate |->
        [rules |-> <<
            [from |-> 1, to |-> 3, check_ammo |-> TRUE, quick_switch |-> FALSE,
             fallback_to |-> 2, fallback_quick_switch |-> TRUE, repeat_count |-> 2],
            [from |-> 2, to |-> 1, check_ammo |-> TRUE, quick_switch |-> FALSE,
             repeat_count |-> 1],
            [from |-> 1, to |-> 2, quick_switch |-> TRUE,
             fallback_to |-> 3, fallback_quick_switch |-> FALSE] >>],
      empty |-> [rules |-> << >>] ]

(* The order of the keys of the presets dictionary. *)
PresetOrder == <<"rot", "gate", "empty">>

(* What the settings dialog saves when the configuration had no presets. *)
DialogPresets == [Main |-> [rules |-> << >>]]

-----------------------------------------------------------------------------
(* MacroEngine: the functions that read the state *)

(* Python truth value of a preset name: None and the empty string are false. *)
Falsy(name) == name = None \/ name = ""

RECURSIVE SortedFrom(_, _)
SortedFrom(S, n) ==
    IF S = {} THEN << >>
    ELSE IF n \in S THEN <<n>> \o SortedFrom(S \ {n}, n + 1)
         ELSE SortedFrom(S, n + 1)

(* The keys of a snapshot in iteration order (read_all_ammo inserts 1..6). *)
ItemOrder(ammo_data) == SortedFrom(DOMAIN ammo_data, MinSlot)

(* Faulty variant of _was_shot_fired: an unchanged clip counts as a shot. *)
_was_shot_fired_le(weapon_id, ammo_data, la) ==
    IF weapon_id \notin DOMAIN ammo_data \/ weapon_id \notin DOMAIN la
    THEN FALSE
    ELSE ammo_data[weapon_id][1] <= la[weapon_id][1]

(* Faulty variant of _was_shot_fired: any change of the clip is a shot. *)
_was_shot_fired_ne(weapon_id, ammo_data, la) ==
    IF weapon_id \notin DOMAIN ammo_data \/ weapon_id \notin DOMAIN la
    THEN FALSE
    ELSE ammo_data[weapon_id][1] # la[weapon_id][1]

_was_shot_fired(weapon_id, ammo_data, la) ==
    IF weapon_id \notin DOMAIN ammo_data \/ weapon_id \notin DOMAIN la
    THEN FALSE
    ELSE LET current_clip == ammo_data[weapon_id][1]
             old_clip == la[weapon_id][1]
         IN current_clip < old_clip

(* Faulty variant of _has_ammo: the reserve counts as ammunition. *)
_has_ammo_reserve(weapon_id, la) ==
    IF weapon_id \notin DOMAIN la
    THEN FALSE
    ELSE la[weapon_id][1] + la[weapon_id][2] > 0

_has_ammo(weapon_id, la) ==
    IF weapon_id \notin DOMAIN la
    THEN FALSE
    ELSE LET clip == la[weapon_id][1]
         IN clip > 0

RECURSIVE DetectLoop(_, _, _, _)
DetectLoop(order, ammo_data, la, lw) ==
    IF order = << >> THEN lw
    ELSE LET weapon_id == Head(order)
         IN IF weapon_id \in DOMAIN la /\ ammo_data[weapon_id][1] < la[weapon_id][1]
            THEN weapon_id
            ELSE DetectLoop(Tail(order), ammo_data, la, lw)

(* Faulty variant of _detect_current_weapon: the clips are not looked at. *)
_detect_current_weapon_cached(ammo_data, la, lw) == lw

_detect_current_weapon(ammo_data, la, lw) ==
    DetectLoop(ItemOrder(ammo_data), ammo_data, la, lw)

_get_weapon_key(weapon_id) == Get(keybindings, weapon_id, ToString(weapon_id))

(* Faulty variant of _switch_weapon: the knife key is sent after the key   *)
(* of the weapon.                                                          *)
_switch_weapon_knife_last(weapon_id, use_quick_switch) ==
    IF weapon_id < MinSlot \/ weapon_id > MaxSlot
    THEN << >>
    ELSE <<Get(keybindings, weapon_id, ToString(weapon_id))>> \o
         (IF use_quick_switch /\ weapon_id # knife_slot
          THEN <<Get(keybindings, knife_slot, ToString(knife_slot))>>
          ELSE << >>)

(* Faulty variant of _switch_weapon: the slot is checked after the knife    *)
(* key was sent.                                                            *)
_switch_weapon_knife_first(weapon_id, use_quick_switch) ==
    LET knife_key == _get_weapon_key(knife_slot)
        step1 == IF use_quick_switch /\ weapon_id # knife_slot /\ knife_key # ""
                 THEN <<knife_key>>
                 ELSE << >>
    IN IF weapon_id < MinSlot \/ weapon_id > MaxSlot
       THEN step1
       ELSE step1 \o <<_get_weapon_key(weapon_id)>>

(* The keys sent by _switch_weapon, in the order of the keyboard.send calls. *)
_switch_weapon(weapon_id, use_quick_switch) ==
    IF weapon_id < MinSlot \/ weapon_id > MaxSlot
    THEN << >>
    ELSE LET knife_key == _get_weapon_key(knife_slot)
             step1 == IF use_quick_switch /\ weapon_id # knife_slot /\ knife_key # ""
                      THEN <<knife_key>>
                      ELSE << >>
         IN step1 \o <<_get_weapon_key(weapon_id)>>

(* The time.sleep calls of _switch_weapon, which run on the thread of the   *)
(* caller: the delay on the knife, after the knife key was sent.            *)
_switch_weapon_sleeps(weapon_id, use_quick_switch) ==
    IF weapon_id < MinSlot \/ weapon_id > MaxSlot
    THEN << >>
    ELSE IF use_quick_switch /\ weapon_id # knife_slot /\ _get_weapon_key(knife_slot) # ""
         THEN <<"macros.quick_switch_delay">>
         ELSE << >>

(* The rules of the preset for the weapon, in the order of the preset. *)
MatchingRules(ps, cp, from_weapon) ==
    SelectSeq(Get(ps[cp], "rules", << >>), LAMBDA rule : rule["from"] = from_weapon)

(* Faulty variant of SkipRule: the cancelled rule stays in turn. *)
SkipRule_stay(rotation, n) == [rotation EXCEPT !.counter = 0]

(* The swap is cancelled: the counter restarts at the next rule. *)
SkipRule(rotation, n) ==
    [current_rule_idx |-> (rotation.current_rule_idx + 1) % n, counter |-> 0]

(* Faulty variant of CountSwap: the rule is left one shot too late. *)
CountSwap_late(rotation, repeat_count, n) ==
    IF rotation.counter + 1 > repeat_count
    THEN [current_rule_idx |-> (rotation.current_rule_idx + 1) % n, counter |-> 0]
    ELSE [rotation EXCEPT !.counter = rotation.counter + 1]

(* The swap was made: count it, and move on once repeat_count is reached. *)
CountSwap(rotation, repeat_count, n) ==
    IF rotation.counter + 1 >= repeat_count
    THEN [current_rule_idx |-> (rotation.current_rule_idx + 1) % n, counter |-> 0]
    ELSE [rotation EXCEPT !.counter = rotation.counter + 1]

(* Nothing was logged about a swap. *)
NoLog == [event |-> "none", from |-> 0, to |-> 0, qs |-> FALSE, rule |-> 0, of |-> 0,
          shot |-> 0, repeat |-> 0]

(* Faulty variant of ResolveTarget: the fallback weapon is drawn with the   *)
(* quick switch flag of the rule.                                           *)
ResolveTarget_rule_qs(current_rule, la) ==
    LET to_weapon == current_rule["to"]
        check_ammo == Get(current_rule, "check_ammo", TRUE)
        quick_switch == Get(current_rule, "quick_switch", FALSE)
        fallback_to == Get(current_rule, "fallback_to", NoFallback)
    IN IF check_ammo /\ ~_has_ammo(to_weapon, la)
       THEN IF fallback_to > 0
            THEN IF ~_has_ammo(fallback_to, la)
                 THEN [event |-> "cancelled: fallback empty", to |-> fallback_to,
                       qs |-> quick_switch, swap |-> FALSE]
                 ELSE [event |-> "swap [FALLBACK]", to |-> fallback_to,
                       qs |-> quick_switch, swap |-> TRUE]
            ELSE [event |-> "cancelled: no fallback", to |-> to_weapon,
                  qs |-> quick_switch, swap |-> FALSE]
       ELSE [event |-> "swap", to |-> to_weapon, qs |-> quick_switch, swap |-> TRUE]

(* _handle_shot raised an IndexError: nothing was logged about a swap. *)
IndexError == [NoLog EXCEPT !.event = "IndexError"]

(* The ammo check of _handle_shot: the weapon to swap to, the quick switch  *)
(* flag to use, and what becomes of the swap.                               *)
ResolveTarget(current_rule, la) ==
    LET to_weapon == current_rule["to"]
        check_ammo == Get(current_rule, "check_ammo", TRUE)
        quick_switch == Get(current_rule, "quick_switch", FALSE)
        fallback_to == Get(current_rule, "fallback_to", NoFallback)
        fallback_quick_switch == Get(current_rule, "fallback_quick_switch", FALSE)
    IN IF check_ammo /\ ~_has_ammo(to_weapon, la)
       THEN IF fallback_to > 0
            THEN IF ~_has_ammo(fallback_to, la)
                 THEN [event |-> "cancelled: fallback empty", to |-> fallback_to,
                       qs |-> fallback_quick_switch, swap |-> FALSE]
                 ELSE [event |-> "swap [FALLBACK]", to |-> fallback_to,
                       qs |-> fallback_quick_switch, swap |-> TRUE]
            ELSE [event |-> "cancelled: no fallback", to |-> to_weapon,
                  qs |-> quick_switch, swap |-> FALSE]
       ELSE [event |-> "swap", to |-> to_weapon, qs |-> quick_switch, swap |-> TRUE]

(* The rotation table, the keys sent and the swap line logged after a shot  *)
(* of from_weapon.  matching_rules[rotation['current_rule_idx']] raises an  *)
(* IndexError when the cursor is beyond the rules there are.                *)
_handle_shot(from_weapon, cp, ps, la, rot) ==
    IF Falsy(cp) \/ cp \notin DOMAIN ps
    THEN [rot |-> rot, keys |-> << >>, log |-> NoLog]
    ELSE
    LET matching_rules == MatchingRules(ps, cp, from_weapon) IN
    IF matching_rules = << >>
    THEN [rot |-> rot, keys |-> << >>, log |-> NoLog]
    ELSE
    LET rot1 == IF from_weapon \in DOMAIN rot
                THEN rot
                ELSE rot @@ (from_weapon :> [current_rule_idx |-> 0, counter |-> 0])
        rotation == rot1[from_weapon]
        current_rule == matching_rules[rotation.current_rule_idx + 1]
        repeat_count == Get(current_rule, "repeat_count", DefaultRepeatCount)
        n == Len(matching_rules)
        t == ResolveTarget(current_rule, la)
        line == [event |-> t.event, from |-> from_weapon, to |-> t.to, qs |-> t.qs,
                 rule |-> rotation.current_rule_idx + 1, of |-> n,
                 shot |-> rotation.counter + 1, repeat |-> repeat_count]
    IN IF rotation.current_rule_idx >= n
       THEN [rot |-> rot1, keys |-> << >>, log |-> IndexError]
       ELSE IF t.swap
       THEN [rot |-> [rot1 EXCEPT ![from_weapon] = CountSwap(rotation, repeat_count, n)],
             keys |-> _switch_weapon(t.to, t.qs), log |-> line]
       ELSE [rot |-> [rot1 EXCEPT ![from_weapon] = SkipRule(rotation, n)],
             keys |-> << >>, log |-> line]

-----------------------------------------------------------------------------
(* MacroEngine: the methods, as functions of the engine's fields *)

Engine ==
    [enabled |-> enabled, current_preset |-> current_preset, presets |-> presets,
     last_ammo |-> last_ammo, last_weapon_id |-> last_weapon_id,
     rule_rotation |-> rule_rotation]

load_presets(e, cfg) == [e EXCEPT !.presets = cfg]

(* Faulty variant of set_active_preset: selecting the active preset again   *)
(* keeps the cursors.                                                       *)
set_active_preset_keep(e, preset_name) ==
    IF preset_name \in DOMAIN e.presets /\ preset_name # e.current_preset
    THEN [e EXCEPT !.current_preset = preset_name, !.rule_rotation = EmptyDict]
    ELSE e

(* Faulty variant of set_active_preset: an unknown name becomes the active  *)
(* preset.                                                                  *)
set_active_preset_any(e, preset_name) ==
    [e EXCEPT !.current_preset = preset_name, !.rule_rotation = EmptyDict]

set_active_preset(e, preset_name) ==
    IF preset_name \in DOMAIN e.presets
    THEN [e EXCEPT !.current_preset = preset_name, !.rule_rotation = EmptyDict]
    ELSE e

(* Faulty variant of enable: a preset without rules is accepted. *)
enable_any_preset(e) ==
    IF Falsy(e.current_preset)
    THEN [e |-> e, ret |-> FALSE]
    ELSE [e |-> [e EXCEPT !.enabled = TRUE], ret |-> TRUE]

(* enable() and its return value *)
enable(e) ==
    IF Falsy(e.current_preset)
    THEN [e |-> e, ret |-> FALSE]
    ELSE IF Get(Get(e.presets, e.current_preset, EmptyDict), "rules", << >>) = << >>
         THEN [e |-> e, ret |-> FALSE]
         ELSE [e |-> [e EXCEPT !.enabled = TRUE], ret |-> TRUE]

disable(e) == [e EXCEPT !.enabled = FALSE]

(* Faulty variant of Active: the enabled flag is not looked at. *)
Active_preset_only(e) == ~Falsy(e.current_preset)

(* update() goes on only if the engine is enabled and has an active preset. *)
Active(e) == e.enabled /\ ~Falsy(e.current_preset)

(* Faulty variant of update: the cache is left alone on a tick with a shot. *)
update_cache_when_quiet(e, ammo_data, current_weapon) ==
    IF ~Active(e)
    THEN [e |-> e, keys |-> << >>, log |-> NoLog, cur |-> NoWeapon, shot |-> FALSE]
    ELSE
    LET cw == IF current_weapon = NoWeapon
              THEN _detect_current_weapon(ammo_data, e.last_ammo, e.last_weapon_id)
              ELSE current_weapon
    IN IF cw = NoWeapon
       THEN [e |-> e, keys |-> << >>, log |-> NoLog, cur |-> NoWeapon, shot |-> FALSE]
       ELSE
       LET fired == _was_shot_fired(cw, ammo_data, e.last_ammo)
           hs == IF fired
                 THEN _handle_shot(cw, e.current_preset, e.presets, e.last_ammo,
                                   e.rule_rotation)
                 ELSE [rot |-> e.rule_rotation, keys |-> << >>, log |-> NoLog]
       IN [e |-> [e EXCEPT !.rule_rotation = hs.rot,
                           !.last_ammo = IF fired THEN e.last_ammo ELSE ammo_data,
                           !.last_weapon_id = cw],
           keys |-> hs.keys, log |-> hs.log, cur |-> cw, shot |-> fired]

(* Faulty variant of update: the shot of a second slot whose clip went down *)
(* is handled in the same tick.                                             *)
update_every_shot(e, ammo_data, current_weapon) ==
    IF ~Active(e)
    THEN [e |-> e, keys |-> << >>, log |-> NoLog, cur |-> NoWeapon, shot |-> FALSE]
    ELSE
    LET cw == IF current_weapon = NoWeapon
              THEN _detect_current_weapon(ammo_data, e.last_ammo, e.last_weapon_id)
              ELSE current_weapon
    IN IF cw = NoWeapon
       THEN [e |-> e, keys |-> << >>, log |-> NoLog, cur |-> NoWeapon, shot |-> FALSE]
       ELSE
       LET fired == _was_shot_fired(cw, ammo_data, e.last_ammo)
           others == {s \in (DOMAIN ammo_data \cap DOMAIN e.last_ammo) \ {cw} :
                         ammo_data[s][1] < e.last_ammo[s][1]}
           hs == IF fired
                 THEN _handle_shot(cw, e.current_preset, e.presets, e.last_ammo,
                                   e.rule_rotation)
                 ELSE [rot |-> e.rule_rotation, keys |-> << >>, log |-> NoLog]
           more == IF fired /\ others # {}
                   THEN _handle_shot(CHOOSE s \in others : \A t \in others : s <= t,
                                     e.current_preset, e.presets, e.last_ammo, hs.rot)
                   ELSE [rot |-> hs.rot, keys |-> << >>, log |-> NoLog]
       IN [e |-> [e EXCEPT !.rule_rotation = more.rot,
                           !.last_ammo = ammo_data,
                           !.last_weapon_id = cw],
           keys |-> hs.keys \o more.keys, log |-> hs.log, cur |-> cw, shot |-> fired]

(* update(ammo_data, current_weapon): the fields afterwards, the keys sent, *)
(* the weapon taken as the current one and whether a shot was detected.  An *)
(* exception of _handle_shot leaves update() before the cache is written.   *)
update(e, ammo_data, current_weapon) ==
    IF ~Active(e)
    THEN [e |-> e, keys |-> << >>, log |-> NoLog, cur |-> NoWeapon, shot |-> FALSE]
    ELSE
    LET cw == IF current_weapon = NoWeapon
              THEN _detect_current_weapon(ammo_data, e.last_ammo, e.last_weapon_id)
              ELSE current_weapon
    IN IF cw = NoWeapon
       THEN [e |-> e, keys |-> << >>, log |-> NoLog, cur |-> NoWeapon, shot |-> FALSE]
       ELSE
       LET fired == _was_shot_fired(cw, ammo_data, e.last_ammo)
           hs == IF fired
                 THEN _handle_shot(cw, e.current_preset, e.presets, e.last_ammo,
                                   e.rule_rotation)
                 ELSE [rot |-> e.rule_rotation, keys |-> << >>, log |-> NoLog]
       IN IF hs.log = IndexError
          THEN [e |-> [e EXCEPT !.rule_rotation = hs.rot],
                keys |-> << >>, log |-> hs.log, cur |-> cw, shot |-> fired]
          ELSE [e |-> [e EXCEPT !.rule_rotation = hs.rot,
                                !.last_ammo = ammo_data,
                                !.last_weapon_id = cw],
                keys |-> hs.keys, log |-> hs.log, cur |-> cw, shot |-> fired]

-----------------------------------------------------------------------------
(* The handlers of the application and of the main window *)

(* AmmoTracker.on_preset_changed *)
on_preset_changed(e, preset_name) == set_active_preset(e, preset_name)

(* AmmoTracker.on_macros_toggled: a failed enable() unchecks the box, and   *)
(* unchecking a checked box comes back as on_macros_toggled(False).         *)
on_macros_toggled(e, checkbox, flag) ==
    IF flag
    THEN LET r == enable(e)
         IN IF r.ret
            THEN [e |-> r.e, checkbox |-> checkbox, ret |-> TRUE]
            ELSE [e |-> IF checkbox THEN disable(r.e) ELSE r.e,
                  checkbox |-> FALSE, ret |-> FALSE]
    ELSE [e |-> disable(e), checkbox |-> checkbox, ret |-> FALSE]

(* The keys of the presets dictionary, in its order. *)
PresetNames(cfg) ==
    IF "rot" \in DOMAIN cfg THEN PresetOrder
    ELSE IF "Main" \in DOMAIN cfg THEN <<"Main">>
    ELSE << >>

InSeq(x, seq) == \E i \in 1..Len(seq) : seq[i] = x

(* MainWindow.reload_presets: refill the combo box, keep or restore the     *)
(* selection (an unselected non-empty combo box shows its first item) and   *)
(* announce the selected preset again.                                      *)
reload_presets(e, combo, cfg, last_preset) ==
    LET names == PresetNames(cfg)
        preset_to_select == IF combo # "" THEN combo ELSE last_preset
        text == IF ~Falsy(preset_to_select) /\ InSeq(preset_to_select, names)
                THEN preset_to_select
                ELSE IF names # << >> THEN names[1] ELSE ""
    IN [e |-> IF text # "" THEN on_preset_changed(e, text) ELSE e,
        combo |-> text]

-----------------------------------------------------------------------------
(* MemoryReader (src/src/core/memory_reader.py)                             *)
(*                                                                          *)
(* An Optional value is the empty sequence for None and <<v>> for v; an     *)
(* ammo tuple is <<clip, reserve>>.  The memory of the game is a function   *)
(* from its readable addresses to their contents; pymem raises on any other *)
(* address.  A computation yields [ret, raised]: what it returns, or that   *)
(* it raised.                                                               *)

Nil == << >>

Ok(v) == [ret |-> v, raised |-> FALSE]

Raise == [ret |-> Nil, raised |-> TRUE]

(* Faulty variant of Try: the handler is missing, the exception goes on. *)
Try_missing(body, on_error) == body

(* try: body / except Exception: return on_error *)
Try(body, on_error) == IF body.raised THEN on_error ELSE body

(* a + b and a * b of Python: a TypeError when an operand is None *)
Plus(a, b) == IF a = Nil \/ b = Nil THEN Raise ELSE Ok(<<a[1] + b[1]>>)

Times(a, b) == IF a = Nil \/ b = Nil THEN Raise ELSE Ok(<<a[1] * b[1]>>)

(* pymem's read_int, read_float and read_longlong *)
PmRead(mem, address) ==
    IF address \in DOMAIN mem THEN Ok(<<mem[address]>>) ELSE Raise

(* The offsets hardcoded in read_crosshair_on_enemy and in __init__. *)
OffsetB8 == 184

Offset38 == 56

player_movec_offset == 72

current_target_offset == 4992

(* The offsets dictionary after __init__. *)
DefaultOffsets ==
    [weapon_slots_base |-> Nil, pointer_offsets |-> << >>, slot_1_clip |-> Nil,
     slot_1_reserve |-> Nil, slot_offset |-> Nil, active_weapon |-> Nil,
     player_movec_offset |-> <<player_movec_offset>>]

(* Offsets as found in a configuration: all of them, or the chain alone. *)
ConfigOffsets ==
    [weapon_slots_base |-> <<1>>, pointer_offsets |-> <<2, 3>>, slot_1_clip |-> <<1>>,
     slot_1_reserve |-> <<2>>, slot_offset |-> <<10>>, active_weapon |-> <<5>>]

ChainOnlyOffsets == [weapon_slots_base |-> <<1>>, pointer_offsets |-> <<2, 3>>]

(* A game process: where its modules are loaded and where the objects on    *)
(* the pointer chains live.  No readable address lies in the null page.     *)
Game ==
    [exe |-> 500, dll |-> 100, p1 |-> 200, p2 |-> 300, ptr2 |-> 600, ptr3 |-> 700,
     weapon_manager |-> 800, my_player |-> 900, target |-> 1000]

Cell(address, content) == IF content = Nil THEN << >> ELSE address :> content[1]

(* The cells of the chain to the weapon slots: module + 1 -> p1, p1 + 2 ->  *)
(* p2, and the slots at p2 + 3.                                             *)
BaseCell == Game.dll + ConfigOffsets.weapon_slots_base[1]

LinkCell == Game.p1 + ConfigOffsets.pointer_offsets[1]

SlotsBase == Game.p2 + ConfigOffsets.pointer_offsets[2]

ClipCell(slot_id) ==
    SlotsBase + ConfigOffsets.slot_offset[1] * (slot_id - 1) + ConfigOffsets.slot_1_clip[1]

ReserveCell(slot_id) ==
    SlotsBase + ConfigOffsets.slot_offset[1] * (slot_id - 1) + ConfigOffsets.slot_1_reserve[1]

(* The chain with a link that is unreadable or null, first or last. *)
BrokenChainMemories ==
    { << >>,
      BaseCell :> 0,
      BaseCell :> Game.p1,
      (BaseCell :> Game.p1) @@ (LinkCell :> 0) }

WholeChain == (BaseCell :> Game.p1) @@ (LinkCell :> Game.p2)

ChainMemories == BrokenChainMemories \cup {WholeChain}

(* The game with the chain broken, or whole with slot 1 and slot 2 in any   *)
(* of these states: a cell unreadable, a clip of 0 or 1, a reserve of 0.    *)
(* The cells of the slots 3..6 are unreadable.                              *)
AmmoMemories ==
    BrokenChainMemories \cup
    { WholeChain @@ Cell(ClipCell(1), c1) @@ Cell(ReserveCell(1), r1)
                 @@ Cell(ClipCell(2), c2) @@ Cell(ReserveCell(2), <<0>>) :
        c1 \in {Nil, <<0>>, <<1>>}, r1 \in {Nil, <<0>>}, c2 \in {Nil, <<1>>} }

(* The cell of the active weapon: unreadable, 0, a slot, or no slot. *)
ActiveWeaponCell == Game.exe + ConfigOffsets.active_weapon[1]

ActiveWeaponMemories ==
    { Cell(ActiveWeaponCell, w) : w \in {Nil, <<0>>, <<2>>, <<7>>} }

(* The cells on the way to currentTargetMoveC, in the order they are read. *)
TargetChain ==
    << [address |-> BaseCell, content |-> Game.p1],
       [address |-> Game.p1 + OffsetB8, content |-> Game.ptr2],
       [address |-> Game.ptr2, content |-> Game.ptr3],
       [address |-> Game.ptr3 + Offset38, content |-> Game.weapon_manager],
       [address |-> Game.weapon_manager + player_movec_offset, content |-> Game.my_player] >>

TargetCell == Game.my_player + current_target_offset

RECURSIVE TargetPrefix(_)
TargetPrefix(n) ==
    IF n = 0 THEN << >>
    ELSE TargetPrefix(n - 1) @@ (TargetChain[n].address :> TargetChain[n].content)

(* The way to the target broken at any step by an unreadable or null        *)
(* pointer, or whole with the target unreadable, null or set.               *)
TargetMemories ==
    { TargetPrefix(i - 1) : i \in 1..Len(TargetChain) }
    \cup { TargetPrefix(i - 1) @@ (TargetChain[i].address :> 0) : i \in 1..Len(TargetChain) }
    \cup { TargetPrefix(Len(TargetChain)) @@ Cell(TargetCell, t) :
             t \in {Nil, <<0>>, <<Game.target>>} }

is_connected(r) == r.pm

read_int32(r, mem, address) ==
    IF ~is_connected(r) THEN Ok(Nil) ELSE Try(PmRead(mem, address), Ok(Nil))

read_float(r, mem, address) ==
    IF ~is_connected(r) THEN Ok(Nil) ELSE Try(PmRead(mem, address), Ok(Nil))

read_pointer(r, mem, address) ==
    IF ~is_connected(r) THEN Ok(Nil) ELSE Try(PmRead(mem, address), Ok(Nil))

RECURSIVE ChainLoop(_, _, _, _)
(* The loop of follow_pointer_chain: read the pointer, give up on None, add *)
(* the offset.                                                              *)
ChainLoop(r, mem, address, pointer_offsets) ==
    IF pointer_offsets = << >> THEN Ok(<<address>>)
    ELSE LET p == read_pointer(r, mem, address)
         IN IF p.raised THEN Raise
            ELSE IF p.ret = Nil THEN Ok(Nil)
            ELSE ChainLoop(r, mem, p.ret[1] + Head(pointer_offsets), Tail(pointer_offsets))

follow_pointer_chain(r, mem) ==
    IF ~is_connected(r) THEN Ok(Nil)
    ELSE IF r.offsets.weapon_slots_base = Nil THEN Ok(Nil)
    ELSE Try(LET address == Plus(r.module_base, r.offsets.weapon_slots_base)
             IN IF address.raised THEN Raise
                ELSE ChainLoop(r, mem, address.ret[1], r.offsets.pointer_offsets),
             Ok(Nil))

(* Faulty variant of read_slot_ammo: a reserve that cannot be read counts   *)
(* as 0.                                                                    *)
read_slot_ammo_default(r, mem, slot_id) ==
    IF ~is_connected(r) THEN Ok(Nil)
    ELSE IF r.offsets.weapon_slots_base = Nil THEN Ok(Nil)
    ELSE Try(LET slots_base == follow_pointer_chain(r, mem)
                 slot_offset == Times(r.offsets.slot_offset, <<slot_id - 1>>)
                 slot_address == Plus(slots_base.ret, slot_offset.ret)
                 reserve_addr == Plus(slot_address.ret, r.offsets.slot_1_reserve)
                 reserve == read_int32(r, mem, reserve_addr.ret[1])
                 clip_addr == Plus(slot_address.ret, r.offsets.slot_1_clip)
                 clip == read_int32(r, mem, clip_addr.ret[1])
             IN IF slots_base.raised THEN Raise
                ELSE IF slots_base.ret = Nil THEN Ok(Nil)
                ELSE IF slot_offset.raised \/ slot_address.raised THEN Raise
                ELSE IF reserve_addr.raised \/ reserve.raised THEN Raise
                ELSE IF clip_addr.raised \/ clip.raised THEN Raise
                ELSE IF clip.ret # Nil
                     THEN Ok(<<clip.ret[1], IF reserve.ret # Nil THEN reserve.ret[1] ELSE 0>>)
                     ELSE Ok(Nil),
             Ok(Nil))

read_slot_ammo(r, mem, slot_id) ==
    IF ~is_connected(r) THEN Ok(Nil)
    ELSE IF r.offsets.weapon_slots_base = Nil THEN Ok(Nil)
    ELSE Try(LET slots_base == follow_pointer_chain(r, mem)
                 slot_offset == Times(r.offsets.slot_offset, <<slot_id - 1>>)
                 slot_address == Plus(slots_base.ret, slot_offset.ret)
                 reserve_addr == Plus(slot_address.ret, r.offsets.slot_1_reserve)
                 reserve == read_int32(r, mem, reserve_addr.ret[1])
                 clip_addr == Plus(slot_address.ret, r.offsets.slot_1_clip)
                 clip == read_int32(r, mem, clip_addr.ret[1])
             IN IF slots_base.raised THEN Raise
                ELSE IF slots_base.ret = Nil THEN Ok(Nil)
                ELSE IF slot_offset.raised \/ slot_address.raised THEN Raise
                ELSE IF reserve_addr.raised \/ reserve.raised THEN Raise
                ELSE IF clip_addr.raised \/ clip.raised THEN Raise
                ELSE IF clip.ret # Nil /\ reserve.ret # Nil
                     THEN Ok(<<clip.ret[1], reserve.ret[1]>>)
                     ELSE Ok(Nil),
             Ok(Nil))

RECURSIVE ReadSlotsFrom(_, _, _, _)
(* Faulty variant of the loop of read_all_ammo: a slot that cannot be read  *)
(* is zeroed in the cache.                                                  *)
ReadSlotsFrom_zeroing(r, mem, slot_id, all_ammo) ==
    IF slot_id > MaxSlot THEN [r |-> r, ret |-> all_ammo, raised |-> FALSE]
    ELSE LET ammo == read_slot_ammo(r, mem, slot_id)
         IN IF ammo.raised THEN [r |-> r, ret |-> all_ammo, raised |-> TRUE]
            ELSE IF ammo.ret # Nil
            THEN ReadSlotsFrom([r EXCEPT !.ammo_cache = (slot_id :> ammo.ret) @@ @],
                               mem, slot_id + 1, all_ammo @@ (slot_id :> ammo.ret))
            ELSE ReadSlotsFrom([r EXCEPT !.ammo_cache = (slot_id :> <<0, 0>>) @@ @],
                               mem, slot_id + 1, all_ammo)

(* The loop of read_all_ammo from slot_id on: the reader with its cache,    *)
(* and the dictionary so far.                                               *)
ReadSlotsFrom(r, mem, slot_id, all_ammo) ==
    IF slot_id > MaxSlot THEN [r |-> r, ret |-> all_ammo, raised |-> FALSE]
    ELSE LET ammo == read_slot_ammo(r, mem, slot_id)
         IN IF ammo.raised THEN [r |-> r, ret |-> all_ammo, raised |-> TRUE]
            ELSE IF ammo.ret # Nil
            THEN ReadSlotsFrom([r EXCEPT !.ammo_cache = (slot_id :> ammo.ret) @@ @],
                               mem, slot_id + 1, all_ammo @@ (slot_id :> ammo.ret))
            ELSE ReadSlotsFrom(r, mem, slot_id + 1, all_ammo)

read_all_ammo(r, mem) == ReadSlotsFrom(r, mem, MinSlot, << >>)

read_active_weapon(r, mem) ==
    IF ~is_connected(r) THEN [r |-> r, ret |-> Nil, raised |-> FALSE]
    ELSE IF r.offsets.active_weapon = Nil THEN [r |-> r, ret |-> Nil, raised |-> FALSE]
    ELSE Try(LET addr == Plus(r.base_address, r.offsets.active_weapon)
                 weapon_id == read_int32(r, mem, addr.ret[1])
             IN IF addr.raised \/ weapon_id.raised
                THEN [r |-> r, ret |-> Nil, raised |-> TRUE]
                ELSE IF weapon_id.ret # Nil /\ weapon_id.ret[1] # 0
                        /\ MinSlot <= weapon_id.ret[1] /\ weapon_id.ret[1] <= MaxSlot
                THEN [r |-> [r EXCEPT !.active_weapon_cache = weapon_id.ret[1]],
                      ret |-> weapon_id.ret, raised |-> FALSE]
                ELSE [r |-> r, ret |-> Nil, raised |-> FALSE],
             [r |-> r, ret |-> Nil, raised |-> FALSE])

get_cached_ammo(r, slot_id) ==
    IF slot_id \in DOMAIN r.ammo_cache THEN r.ammo_cache[slot_id] ELSE Nil

(* "not ptr" of Python: None and 0 *)
NotPtr(p) == p = Nil \/ p[1] = 0

RECURSIVE TargetLoop(_, _, _, _)
(* The dereferences of read_crosshair_on_enemy up to myPlayerMoveC: read    *)
(* the pointer at address, return False on None or 0, add the next offset.  *)
TargetLoop(r, mem, address, offsets) ==
    LET ptr == read_pointer(r, mem, address)
    IN IF ptr.raised THEN Raise
       ELSE IF NotPtr(ptr.ret) THEN Ok(Nil)
       ELSE IF offsets = << >> THEN Ok(ptr.ret)
       ELSE LET next == Plus(ptr.ret, Head(offsets))
            IN IF next.raised THEN Raise
               ELSE TargetLoop(r, mem, next.ret[1], Tail(offsets))

(* Faulty variant of read_crosshair_on_enemy: when the way to the target is *)
(* broken, the answer remembered from the last call is given again.         *)
read_crosshair_on_enemy_latched(r, mem) ==
    IF ~is_connected(r) THEN [r |-> r, ret |-> FALSE, raised |-> FALSE]
    ELSE Try(LET base == Plus(r.module_base, r.offsets.weapon_slots_base)
                 my_player_ptr ==
                     TargetLoop(r, mem, base.ret[1],
                                <<<<OffsetB8>>, <<0>>, <<Offset38>>,
                                  r.offsets.player_movec_offset>>)
                 current_target_ptr ==
                     read_pointer(r, mem, my_player_ptr.ret[1] + current_target_offset)
                 is_on_enemy ==
                     current_target_ptr.ret # Nil /\ current_target_ptr.ret[1] # 0
             IN IF base.raised \/ my_player_ptr.raised
                THEN [r |-> r, ret |-> FALSE, raised |-> TRUE]
                ELSE IF my_player_ptr.ret = Nil
                THEN [r |-> r, ret |-> r.last_target_state = <<TRUE>>, raised |-> FALSE]
                ELSE IF current_target_ptr.raised
                THEN [r |-> r, ret |-> FALSE, raised |-> FALSE]
                ELSE IF <<is_on_enemy>> # r.last_target_state
                        \/ current_target_ptr.ret # r.last_target_ptr
                THEN [r |-> [r EXCEPT !.last_target_state = <<is_on_enemy>>,
                                      !.last_target_ptr = current_target_ptr.ret],
                      ret |-> is_on_enemy, raised |-> FALSE]
                ELSE [r |-> r, ret |-> is_on_enemy, raised |-> FALSE],
             [r |-> r, ret |-> FALSE, raised |-> FALSE])

(* read_crosshair_on_enemy.  The reads made for the log alone (myPlayer,    *)
(* the scan for null pointers) are left out: what they return is printed    *)
(* and nothing else.  The read of the target has a handler of its own.      *)
read_crosshair_on_enemy(r, mem) ==
    IF ~is_connected(r) THEN [r |-> r, ret |-> FALSE, raised |-> FALSE]
    ELSE Try(LET base == Plus(r.module_base, r.offsets.weapon_slots_base)
                 my_player_ptr ==
                     TargetLoop(r, mem, base.ret[1],
                                <<<<OffsetB8>>, <<0>>, <<Offset38>>,
                                  r.offsets.player_movec_offset>>)
                 current_target_ptr ==
                     read_pointer(r, mem, my_player_ptr.ret[1] + current_target_offset)
                 is_on_enemy ==
                     current_target_ptr.ret # Nil /\ current_target_ptr.ret[1] # 0
             IN IF base.raised \/ my_player_ptr.raised
                THEN [r |-> r, ret |-> FALSE, raised |-> TRUE]
                ELSE IF my_player_ptr.ret = Nil
                THEN [r |-> r, ret |-> FALSE, raised |-> FALSE]
                ELSE IF current_target_ptr.raised
                THEN [r |-> r, ret |-> FALSE, raised |-> FALSE]
                ELSE IF <<is_on_enemy>> # r.last_target_state
                        \/ current_target_ptr.ret # r.last_target_ptr
                THEN [r |-> [r EXCEPT !.last_target_state = <<is_on_enemy>>,
                                      !.last_target_ptr = current_target_ptr.ret],
                      ret |-> is_on_enemy, raised |-> FALSE]
                ELSE [r |-> r, ret |-> is_on_enemy, raised |-> FALSE],
             [r |-> r, ret |-> FALSE, raised |-> FALSE])

(* The lines read_crosshair_on_enemy logs at info level, in order.  Until   *)
(* a first answer is remembered (last_target_state is None) every call logs *)
(* the heading of its path check, then its first step, then the end of the  *)
(* path if it gets to myPlayerMoveC (the lines of the steps 2 to 5 in       *)
(* between are left out), then its scan for null pointers if the target was *)
(* read; every call that reads the target logs it when the answer or the    *)
(* pointer is not the one remembered.                                       *)
read_crosshair_on_enemy_info(r, mem) ==
    IF ~is_connected(r) THEN << >>
    ELSE LET first == r.last_target_state = Nil
             Debug(line) == IF first THEN <<line>> ELSE << >>
             base == Plus(r.module_base, r.offsets.weapon_slots_base)
             my_player_ptr ==
                 TargetLoop(r, mem, base.ret[1],
                            <<<<OffsetB8>>, <<0>>, <<Offset38>>,
                              r.offsets.player_movec_offset>>)
             current_target_ptr ==
                 read_pointer(r, mem, my_player_ptr.ret[1] + current_target_offset)
             is_on_enemy ==
                 current_target_ptr.ret # Nil /\ current_target_ptr.ret[1] # 0
         IN IF base.raised THEN Debug("path check")
            ELSE IF my_player_ptr.raised \/ my_player_ptr.ret = Nil
            THEN Debug("path check") \o Debug("step 1")
            ELSE IF current_target_ptr.raised
            THEN Debug("path check") \o Debug("step 1") \o Debug("path end")
            ELSE Debug("path check") \o Debug("step 1") \o Debug("path end")
                    \o Debug("null pointers")
                    \o (IF <<is_on_enemy>> # r.last_target_state
                            \/ current_target_ptr.ret # r.last_target_ptr
                        THEN <<IF is_on_enemy THEN "target acquired" ELSE "target lost">>
                        ELSE << >>)

(* The outcomes of connect(): the process and GameAssembly.dll are found;   *)
(* the process is found and the dll is not; the process is not found; the   *)
(* process is opened and looking up its module fails.                       *)
ConnectOutcomes == {"dll", "no dll", "not found", "opened"}

(* The memories the typed reads are tried on: the first cell of the chain,  *)
(* unreadable, null or set.                                                 *)
TypedMemories == { << >>, BaseCell :> 0, BaseCell :> Game.p1 }

connect(r, outcome) ==
    IF outcome = "dll"
    THEN [r |-> [r EXCEPT !.pm = TRUE, !.base_address = <<Game.exe>>,
                          !.module_base = <<Game.dll>>], ret |-> TRUE]
    ELSE IF outcome = "no dll"
    THEN [r |-> [r EXCEPT !.pm = TRUE, !.base_address = <<Game.exe>>,
                          !.module_base = <<Game.exe>>], ret |-> TRUE]
    ELSE IF outcome = "opened"
    THEN [r |-> [r EXCEPT !.pm = TRUE], ret |-> FALSE]
    ELSE [r |-> r, ret |-> FALSE]

disconnect(r) ==
    IF r.pm THEN [r EXCEPT !.pm = FALSE, !.base_address = Nil] ELSE r

set_offsets(r, offsets) ==
    [r EXCEPT !.offsets = [k \in DOMAIN r.offsets |->
                              IF k \in DOMAIN offsets THEN offsets[k] ELSE r.offsets[k]]]

(* MemoryReader.__init__ *)
NewReader ==
    [pm |-> FALSE, base_address |-> Nil, module_base |-> Nil, offsets |-> DefaultOffsets,
     ammo_cache |-> << >>, active_weapon_cache |-> 1,
     last_target_state |-> Nil, last_target_ptr |-> Nil]

(* What a read is due to return, told from the memory alone.                *)

(* A link of a chain holds: the cell is readable and not null. *)
LinkHolds(mem, address) == address \in DOMAIN mem /\ mem[address] # 0

RECURSIVE Resolved(_, _, _)
(* The address a chain resolves to, every link holding, and Nil otherwise. *)
Resolved(mem, address, pointer_offsets) ==
    IF pointer_offsets = << >> THEN <<address>>
    ELSE IF LinkHolds(mem, address)
    THEN Resolved(mem, mem[address] + Head(pointer_offsets), Tail(pointer_offsets))
    ELSE Nil

(* The address of the weapon slots, Nil when the reader is not attached,    *)
(* has no offsets or module, or a link is broken.                           *)
SlotsResolved(r, mem) ==
    IF r.pm /\ r.module_base # Nil /\ r.offsets.weapon_slots_base # Nil
    THEN Resolved(mem, r.module_base[1] + r.offsets.weapon_slots_base[1],
                  r.offsets.pointer_offsets)
    ELSE Nil

(* The addresses of the clip and of the reserve of a slot, Nil when the     *)
(* chain does not resolve or an offset is not set.                          *)
SlotCells(r, mem, slot_id) ==
    LET slots_base == SlotsResolved(r, mem)
        o == r.offsets
    IN IF slots_base = Nil \/ o.slot_offset = Nil \/ o.slot_1_clip = Nil
          \/ o.slot_1_reserve = Nil
       THEN Nil
       ELSE LET slot_address == slots_base[1] + o.slot_offset[1] * (slot_id - 1)
            IN <<slot_address + o.slot_1_clip[1], slot_address + o.slot_1_reserve[1]>>

(* The chain resolves and the clip and the reserve of the slot are readable. *)
FullRead(r, mem, slot_id) ==
    LET cells == SlotCells(r, mem, slot_id)
    IN cells # Nil /\ cells[1] \in DOMAIN mem /\ cells[2] \in DOMAIN mem

SlotValue(r, mem, slot_id) ==
    LET cells == SlotCells(r, mem, slot_id) IN <<mem[cells[1]], mem[cells[2]]>>

(* The latest fully read value of every slot after read_all_ammo ran on mem. *)
GoodAfter(r, mem, good) ==
    LET read == {slot_id \in MinSlot..MaxSlot : FullRead(r, mem, slot_id)}
    IN [slot_id \in DOMAIN good \cup read |->
          IF slot_id \in read THEN SlotValue(r, mem, slot_id) ELSE good[slot_id]]

(* The target is on the reticle: the reader is attached, every pointer on   *)
(* the way to myPlayerMoveC holds and the target pointer is readable and    *)
(* not null.                                                                *)
OnReticle(r, mem) ==
    /\ r.pm
    /\ r.module_base # Nil
    /\ r.offsets.weapon_slots_base # Nil
    /\ LET my_player == Resolved(mem, r.module_base[1] + r.offsets.weapon_slots_base[1],
                                 <<OffsetB8, 0, Offset38, player_movec_offset,
                                   current_target_offset>>)
       IN my_player # Nil /\ LinkHolds(mem, my_player[1])

-----------------------------------------------------------------------------
(* TriggerBot (src/core/trigger_bot.py).  The windows of the desktop are an  *)
(* input of every call: the set of titles that have a window at the time.   *)
(* Delays are kept in milliseconds, 0.05 s being 50.                        *)

Titles == {"Pixel Gun 3D", "Pixel Gun 3D - Unity"}

(* The handle of the window of each title. *)
Hwnd == [t \in Titles |-> IF t = "Pixel Gun 3D" THEN 7 ELSE 8]

(* What a call finds on the desktop: the titles that have a window, whether *)
(* GetClientRect and PostMessage go through, and which end of the interval  *)
(* random.uniform gives.                                                    *)
Desktops == [windows : SUBSET Titles, post_ok : BOOLEAN, high : BOOLEAN]

(* win32gui.FindWindow(None, title): the handle, 0 when there is no window *)
FindWindow(env, title) == IF title \in env.windows THEN Hwnd[title] ELSE 0

(* win32gui.IsWindow(hwnd) *)
IsWindow(env, hwnd) == \E t \in env.windows : Hwnd[t] = hwnd

(* "not self.game_hwnd or not win32gui.IsWindow(self.game_hwnd)" *)
NoWindow(env, game_hwnd) ==
    game_hwnd = Nil \/ game_hwnd[1] = 0 \/ ~IsWindow(env, game_hwnd[1])

(* TriggerBot.__init__ *)
NewTrigger ==
    [enabled |-> FALSE, game_hwnd |-> Nil,
     reaction_delay_min |-> 50, reaction_delay_max |-> 150,
     last_state |-> FALSE, is_holding |-> FALSE, first_check |-> TRUE]

(* TriggerBot.enable *)
trigger_enable(t, env) ==
    LET first == FindWindow(env, "Pixel Gun 3D")
        game_hwnd == IF first = 0 THEN FindWindow(env, "Pixel Gun 3D - Unity")
                     ELSE first
    IN IF game_hwnd = 0
       THEN [t |-> [t EXCEPT !.game_hwnd = <<game_hwnd>>], ret |-> FALSE]
       ELSE [t |-> [t EXCEPT !.game_hwnd = <<game_hwnd>>, !.enabled = TRUE],
             ret |-> TRUE]

(* TriggerBot.set_reaction_delay *)
set_reaction_delay(t, min_ms, max_ms) ==
    [t EXCEPT !.reaction_delay_min = min_ms, !.reaction_delay_max = max_ms]

(* The bounds on_trigger_toggled makes of the delay of the spin box. *)
ReactionDelays(delay) ==
    [min_delay |-> IF delay - 50 > 10 THEN delay - 50 ELSE 10, max_delay |-> delay + 50]

(* TriggerBot._press_mouse: look the window up again when it is gone, wait  *)
(* the reaction delay, post WM_LBUTTONDOWN, hold.  An exception of win32 is *)
(* caught and leaves is_holding as it was.                                  *)
_press_mouse(t, env) ==
    LET stale == NoWindow(env, t.game_hwnd)
        game_hwnd == IF stale THEN <<FindWindow(env, "Pixel Gun 3D")>> ELSE t.game_hwnd
        found == [t EXCEPT !.game_hwnd = game_hwnd]
        reaction_delay == IF env.high THEN t.reaction_delay_max
                          ELSE t.reaction_delay_min
    IN IF game_hwnd[1] = 0 THEN [t |-> found, events |-> << >>]
       ELSE IF ~env.post_ok THEN [t |-> found, events |-> << >>]
       ELSE [t |-> [found EXCEPT !.is_holding = TRUE],
             events |-> << [kind |-> "down", hwnd |-> game_hwnd[1],
                            delay |-> reaction_delay] >>]

(* TriggerBot._release_mouse: nothing when the window is gone; otherwise    *)
(* post WM_LBUTTONUP at once and stop holding.                              *)
_release_mouse(t, env) ==
    IF NoWindow(env, t.game_hwnd) THEN [t |-> t, events |-> << >>]
    ELSE IF ~env.post_ok THEN [t |-> t, events |-> << >>]
    ELSE [t |-> [t EXCEPT !.is_holding = FALSE],
          events |-> << [kind |-> "up", hwnd |-> t.game_hwnd[1], delay |-> 0] >>]

(* TriggerBot.disable *)
trigger_disable(t, env) ==
    LET released == IF t.is_holding THEN _release_mouse(t, env)
                    ELSE [t |-> t, events |-> << >>]
    IN [t |-> [released.t EXCEPT !.enabled = FALSE], events |-> released.events]

(* The parameters read_crosshair_on_enemy declares besides self: none. *)
read_crosshair_on_enemy_params == { }

(* A call with keyword arguments: a TypeError, the body not run, when the   *)
(* method declares no parameter of that name.                               *)
CallKw(params, keywords, result) ==
    IF keywords \subseteq params THEN result ELSE Raise

(* TriggerBot.update.  It calls read_crosshair_on_enemy(debug_mode=...);    *)
(* whatever is raised inside the try block is logged and the tick ends.     *)
trigger_update(t, r, mem, env) ==
    IF ~t.enabled THEN [t |-> t, r |-> r, events |-> << >>, caught |-> FALSE]
    ELSE LET checked == [t EXCEPT !.first_check = FALSE]
             read == CallKw(read_crosshair_on_enemy_params, {"debug_mode"},
                            read_crosshair_on_enemy(r, mem))
         IN IF read.raised
            THEN [t |-> checked, r |-> r, events |-> << >>, caught |-> TRUE]
            ELSE LET is_on_enemy == read.ret
                     acted == IF is_on_enemy /\ ~checked.is_holding
                              THEN _press_mouse(checked, env)
                              ELSE IF ~is_on_enemy /\ checked.is_holding
                              THEN _release_mouse(checked, env)
                              ELSE [t |-> checked, events |-> << >>]
                 IN [t |-> [acted.t EXCEPT !.last_state = is_on_enemy],
                     r |-> read.r, events |-> acted.events, caught |-> FALSE]

-----------------------------------------------------------------------------
(* AutoJump (src/core/auto_jump.py).  update() runs on the thread of the    *)
(* timer; every burst runs _perform_auto_jumps on a thread of its own, one  *)
(* step at a time: the threads share the fields of self and nothing else.   *)

(* The values 'auto_jump.repeat_count' has in the configuration. *)
ConfigRepeatCounts == {1, 2}

(* The value 'auto_jump.delay_ms' has in the configuration. *)
ConfigDelayMs == 100

(* What update() finds: the windows there are, the foreground window (0: a  *)
(* window of another application) and the state of the space key.           *)
JumpDesktops ==
    { env \in [windows : SUBSET Titles, foreground : {0, 7, 8}, is_pressed : BOOLEAN] :
        env.foreground = 0 \/ \E t \in env.windows : Hwnd[t] = env.foreground }

(* AutoJump.__init__, with the defaults of the configuration *)
NewJump ==
    [enabled |-> FALSE, game_hwnd |-> Nil, repeat_count |-> 2, delay_ms |-> 100,
     was_pressed |-> FALSE, is_jumping |-> FALSE]

(* Faulty variant of jump_enable: the result of the first lookup alone      *)
(* decides.                                                                 *)
jump_enable_first_title(j, env, config_repeat_count) ==
    LET first == FindWindow(env, "Pixel Gun 3D")
    IN IF first = 0
       THEN [j |-> [j EXCEPT !.game_hwnd = <<first>>], ret |-> FALSE]
       ELSE [j |-> [j EXCEPT !.game_hwnd = <<first>>,
                             !.repeat_count = config_repeat_count,
                             !.delay_ms = ConfigDelayMs,
                             !.enabled = TRUE, !.was_pressed = FALSE,
                             !.is_jumping = FALSE],
             ret |-> TRUE]

(* AutoJump.enable *)
jump_enable(j, env, config_repeat_count) ==
    LET first == FindWindow(env, "Pixel Gun 3D")
        game_hwnd == IF first = 0 THEN FindWindow(env, "Pixel Gun 3D - Unity")
                     ELSE first
    IN IF game_hwnd = 0
       THEN [j |-> [j EXCEPT !.game_hwnd = <<game_hwnd>>], ret |-> FALSE]
       ELSE [j |-> [j EXCEPT !.game_hwnd = <<game_hwnd>>,
                             !.repeat_count = config_repeat_count,
                             !.delay_ms = ConfigDelayMs,
                             !.enabled = TRUE, !.was_pressed = FALSE,
                             !.is_jumping = FALSE],
             ret |-> TRUE]

(* AutoJump.disable *)
jump_disable(j) ==
    [j EXCEPT !.enabled = FALSE, !.was_pressed = FALSE, !.is_jumping = FALSE]

(* max(lo, min(hi, v)) *)
Clamp(lo, hi, v) == IF v < lo THEN lo ELSE IF v > hi THEN hi ELSE v

(* AutoJump.set_repeat_count *)
set_repeat_count(j, count) == [j EXCEPT !.repeat_count = Clamp(1, 10, count)]

(* AutoJump._is_game_window_active: the window is looked up again, under    *)
(* the first title, when the handle is stale; it is active when it is the   *)
(* foreground window.                                                       *)
_is_game_window_active(j, env) ==
    LET stale == NoWindow(env, j.game_hwnd)
        game_hwnd == IF stale THEN <<FindWindow(env, "Pixel Gun 3D")>> ELSE j.game_hwnd
        found == [j EXCEPT !.game_hwnd = game_hwnd]
    IN IF game_hwnd[1] = 0 THEN [j |-> found, ret |-> FALSE]
       ELSE [j |-> found, ret |-> env.foreground = game_hwnd[1]]

(* A burst thread that has not run yet: where it is in _perform_auto_jumps, *)
(* the count range() was given, the index of the loop, and for the          *)
(* properties what it has sent, whether disable() was called since it was   *)
(* started and whether it is the thread the termination property follows.   *)
NewWorker ==
    [pc |-> "start", n |-> 0, i |-> 0, sent |-> << >>, disabled |-> FALSE,
     watched |-> FALSE]

(* AutoJump.update: spawn tells whether a burst thread is started. *)
jump_update(j, env) ==
    IF ~j.enabled THEN [j |-> j, spawn |-> FALSE]
    ELSE IF env.is_pressed /\ ~j.was_pressed
    THEN IF ~j.is_jumping
         THEN LET active == _is_game_window_active(j, env)
              IN IF active.ret
                 THEN [j |-> [active.j EXCEPT !.is_jumping = TRUE,
                                              !.was_pressed = env.is_pressed],
                       spawn |-> TRUE]
                 ELSE [j |-> [active.j EXCEPT !.was_pressed = env.is_pressed],
                       spawn |-> FALSE]
         ELSE [j |-> [j EXCEPT !.was_pressed = env.is_pressed], spawn |-> FALSE]
    ELSE [j |-> [j EXCEPT !.was_pressed = env.is_pressed], spawn |-> FALSE]

(* Faulty variant of _perform_auto_jumps: the loop runs once more. *)
_perform_auto_jumps_once_more(j, w) ==
    IF w.pc = "start"
    THEN [j |-> j, w |-> [w EXCEPT !.pc = IF j.repeat_count <= 0 THEN "finally" ELSE "check",
                                   !.n = j.repeat_count, !.i = 0]]
    ELSE IF w.pc = "check"
    THEN IF ~j.enabled
         THEN [j |-> j, w |-> [w EXCEPT !.pc = "finally"]]
         ELSE [j |-> j, w |-> [w EXCEPT !.pc = "press"]]
    ELSE IF w.pc = "press"
    THEN [j |-> j, w |-> [w EXCEPT !.pc = "release", !.sent = Append(@, "press")]]
    ELSE IF w.pc = "release"
    THEN [j |-> j, w |-> [w EXCEPT !.pc = IF w.i + 1 > w.n THEN "finally" ELSE "check",
                                   !.sent = Append(@, "release"),
                                   !.i = @ + 1]]
    ELSE [j |-> [j EXCEPT !.is_jumping = FALSE], w |-> [w EXCEPT !.pc = "done"]]

(* Faulty variant of _perform_auto_jumps: the thread tests enabled again    *)
(* after the hold of 50 ms and leaves the loop at once.                     *)
_perform_auto_jumps_abort_held(j, w) ==
    IF w.pc = "start"
    THEN [j |-> j, w |-> [w EXCEPT !.pc = IF j.repeat_count <= 0 THEN "finally" ELSE "check",
                                   !.n = j.repeat_count, !.i = 0]]
    ELSE IF w.pc = "check"
    THEN IF ~j.enabled
         THEN [j |-> j, w |-> [w EXCEPT !.pc = "finally"]]
         ELSE [j |-> j, w |-> [w EXCEPT !.pc = "press"]]
    ELSE IF w.pc = "press"
    THEN [j |-> j, w |-> [w EXCEPT !.pc = "release", !.sent = Append(@, "press")]]
    ELSE IF w.pc = "release"
    THEN IF ~j.enabled
         THEN [j |-> j, w |-> [w EXCEPT !.pc = "finally"]]
         ELSE [j |-> j, w |-> [w EXCEPT !.pc = IF w.i + 1 >= w.n THEN "finally" ELSE "check",
                                        !.sent = Append(@, "release"),
                                        !.i = @ + 1]]
    ELSE [j |-> [j EXCEPT !.is_jumping = FALSE], w |-> [w EXCEPT !.pc = "done"]]

(* Faulty variant of _perform_auto_jumps: a thread that finds the AutoJump  *)
(* disabled waits for it to be enabled again.                               *)
_perform_auto_jumps_waiting(j, w) ==
    IF w.pc = "start"
    THEN [j |-> j, w |-> [w EXCEPT !.pc = IF j.repeat_count <= 0 THEN "finally" ELSE "check",
                                   !.n = j.repeat_count, !.i = 0]]
    ELSE IF w.pc = "check"
    THEN IF ~j.enabled
         THEN [j |-> j, w |-> w]
         ELSE [j |-> j, w |-> [w EXCEPT !.pc = "press"]]
    ELSE IF w.pc = "press"
    THEN [j |-> j, w |-> [w EXCEPT !.pc = "release", !.sent = Append(@, "press")]]
    ELSE IF w.pc = "release"
    THEN [j |-> j, w |-> [w EXCEPT !.pc = IF w.i + 1 >= w.n THEN "finally" ELSE "check",
                                   !.sent = Append(@, "release"),
                                   !.i = @ + 1]]
    ELSE [j |-> [j EXCEPT !.is_jumping = FALSE], w |-> [w EXCEPT !.pc = "done"]]

(* One step of the thread of _perform_auto_jumps.  A step ends with an      *)
(* access to a field of self or with a key event, the things other threads  *)
(* can tell apart: the first sleep and range() reading repeat_count; the    *)
(* test of enabled; press; the hold of 50 ms, release, the sleep between    *)
(* two jumps and the next index, which ends the loop when the range is      *)
(* exhausted; the finally clause.  press and release are taken not to       *)
(* raise.                                                                   *)
_perform_auto_jumps(j, w) ==
    IF w.pc = "start"
    THEN [j |-> j, w |-> [w EXCEPT !.pc = IF j.repeat_count <= 0 THEN "finally" ELSE "check",
                                   !.n = j.repeat_count, !.i = 0]]
    ELSE IF w.pc = "check"
    THEN IF ~j.enabled
         THEN [j |-> j, w |-> [w EXCEPT !.pc = "finally"]]
         ELSE [j |-> j, w |-> [w EXCEPT !.pc = "press"]]
    ELSE IF w.pc = "press"
    THEN [j |-> j, w |-> [w EXCEPT !.pc = "release", !.sent = Append(@, "press")]]
    ELSE IF w.pc = "release"
    THEN [j |-> j, w |-> [w EXCEPT !.pc = IF w.i + 1 >= w.n THEN "finally" ELSE "check",
                                   !.sent = Append(@, "release"),
                                   !.i = @ + 1]]
    ELSE [j |-> [j EXCEPT !.is_jumping = FALSE], w |-> [w EXCEPT !.pc = "done"]]

-----------------------------------------------------------------------------
(* The reader and the rest of the program stay as they are. *)
ReaderUntouched == UNCHANGED <<reader, call, last_good>>

(* The trigger bot stays as it is. *)
TriggerUntouched == UNCHANGED <<trigger, events, tcall>>

(* The AutoJump and its burst threads stay as they are. *)
JumpUntouched == UNCHANGED <<jump, workers, jcall, last_key, held>>

(* The AmmoTracker and the game process stay as they are. *)
TrackingUntouched == UNCHANGED <<app, process, ptick>>

(* update() was not called with a weapon yet. *)
NoUpdateCall == [snap |-> EmptyDict, given |-> NoWeapon, cur |-> NoWeapon]

(* No tick of update_tracking yet. *)
NoTrackingTick ==
    [op |-> "init", down |-> FALSE, attempted |-> FALSE, trigger |-> FALSE,
     jump |-> FALSE, odd |-> FALSE]

(* No method of the AutoJump was called yet. *)
NoJumpCall ==
    [op |-> "init", ret |-> FALSE, enabled |-> FALSE, found |-> FALSE,
     focus |-> FALSE, w |-> NewWorker]

(* No method of the trigger bot was called yet. *)
NoTriggerCall ==
    [op |-> "init", ret |-> FALSE, enabled |-> FALSE, holding |-> FALSE,
     on_reticle |-> FALSE, window |-> FALSE, posted |-> << >>, caught |-> FALSE,
     found |-> FALSE]

(* What the handlers leave behind for the properties below: the handler,   *)
(* the value enable() returned, the weapon update() took as current,        *)
(* whether it detected a shot, whether this tick and the tick before were   *)
(* both handled by the engine, the (clip, reserve) the engine held for the  *)
(* target of the rule in turn, whether cursors existed before the handler,  *)
(* whether the preset it announced was the active one already and whether   *)
(* the snapshot showed a reload and nothing else (a clip grew, none shrank).*)
History(op, ret, cur, shot, consecutive, seen, same, reload, several) ==
    [op |-> op, ret |-> ret, cur |-> cur, shot |-> shot, consecutive |-> consecutive,
     seen |-> seen, had_cursors |-> rule_rotation # EmptyDict, same |-> same,
     reload |-> reload, several |-> several]

Quiet(op, ret, same) ==
    History(op, ret, NoWeapon, FALSE, FALSE, << >>, same, FALSE, FALSE)

(* The slots whose clip is larger in ammo_data than in la (reloaded). *)
Increased(la, ammo_data) ==
    {s \in DOMAIN la \cap DOMAIN ammo_data : ammo_data[s][1] > la[s][1]}

(* The slots whose clip is smaller in ammo_data than in la (fired). *)
Decreased(la, ammo_data) ==
    {s \in DOMAIN la \cap DOMAIN ammo_data : ammo_data[s][1] < la[s][1]}

(* The rule in turn for a shot of from_weapon, before the shot is handled. *)
RuleInTurn(ps, cp, rot, from_weapon) ==
    LET matching_rules == MatchingRules(ps, cp, from_weapon)
        idx == IF from_weapon \in DOMAIN rot THEN rot[from_weapon].current_rule_idx ELSE 0
    IN matching_rules[idx + 1]

HasRules(ps, cp, from_weapon) ==
    /\ ~Falsy(cp)
    /\ cp \in DOMAIN ps
    /\ MatchingRules(ps, cp, from_weapon) # << >>

SetEngine(e) ==
    /\ enabled' = e.enabled
    /\ current_preset' = e.current_preset
    /\ presets' = e.presets
    /\ last_ammo' = e.last_ammo
    /\ last_weapon_id' = e.last_weapon_id
    /\ rule_rotation' = e.rule_rotation

NoTick == [handled |-> FALSE, snap |-> EmptyDict]

NoRun == [slot |-> NoWeapon, targets |-> << >>]

(* The run starts again when a preset is activated. *)
RunAfterPreset(e, preset_name) ==
    IF preset_name # "" /\ preset_name \in DOMAIN e.presets THEN NoRun ELSE run

(* No rule of the slot checks the ammo: its swaps are never cancelled. *)
Ungated(ps, cp, from_weapon) ==
    LET matching_rules == MatchingRules(ps, cp, from_weapon)
    IN \A i \in 1..Len(matching_rules) : ~Get(matching_rules[i], "check_ammo", TRUE)

(* The run follows the first slot that fires and whose rules never check    *)
(* the ammo; it is recorded up to MaxShots shots.                           *)
RunAfterTick(u) ==
    IF ~u.shot \/ u.log.event = "none" \/ u.log = IndexError THEN run
    ELSE IF run.slot \notin {NoWeapon, u.cur} THEN run
    ELSE IF ~Ungated(presets, current_preset, u.cur) THEN run
    ELSE IF Len(run.targets) >= MaxShots THEN run
    ELSE [slot |-> u.cur, targets |-> Append(run.targets, u.log.to)]

(* The program after construction, the configuration left aside. *)
Constructed ==
    /\ enabled = FALSE
    /\ current_preset = None
    /\ presets = EmptyDict
    /\ last_ammo = EmptyDict
    /\ last_weapon_id = InitialWeaponId
    /\ rule_rotation = EmptyDict
    /\ setup_done = FALSE
    /\ macros_checkbox = TRUE
    /\ preset_combo = ""
    /\ keys = << >>
    /\ log = NoLog
    /\ last_tick = NoTick
    /\ run = NoRun
    /\ h = Quiet("init", FALSE, FALSE)
    /\ reader = NewReader
    /\ call = [op |-> "init", arg |-> 0, mem |-> << >>, ret |-> Nil, raised |-> FALSE]
    /\ last_good = << >>
    /\ trigger = NewTrigger
    /\ events = << >>
    /\ tcall = NoTriggerCall
    /\ jump = NewJump
    /\ workers = EmptyBag
    /\ jcall = NoJumpCall
    /\ last_key = FALSE
    /\ held = FALSE
    /\ ucall = NoUpdateCall
    /\ app = [is_tracking |-> FALSE, auto_reconnect |-> TRUE]
    /\ process = [up |-> TRUE, lost |-> FALSE]
    /\ ptick = NoTrackingTick

Init ==
    /\ has_presets_key \in BOOLEAN
    /\ config_presets = IF has_presets_key THEN ConfigPresets ELSE EmptyDict
    /\ Constructed

(* AmmoTracker.setup_gui: load the presets, fill the combo box, then apply  *)
(* the saved settings (the saved preset name and the saved macros flag).    *)
SetupGui ==
    /\ ~setup_done
    /\ \E last_preset \in {None, "gate", "gone"}, macros_enabled \in BOOLEAN :
          LET e1 == load_presets(Engine, IF has_presets_key THEN config_presets ELSE EmptyDict)
              rp == reload_presets(e1, preset_combo, config_presets, last_preset)
              mt == on_macros_toggled(rp.e, macros_enabled, macros_enabled)
          IN /\ SetEngine(mt.e)
             /\ preset_combo' = rp.combo
             /\ macros_checkbox' = mt.checkbox
             /\ run' = RunAfterPreset(e1, rp.combo)
             /\ h' = Quiet(IF macros_enabled THEN "setup on" ELSE "setup off", mt.ret, FALSE)
    /\ setup_done' = TRUE
    /\ keys' = << >>
    /\ log' = NoLog
    /\ UNCHANGED <<config_presets, has_presets_key, last_tick>>
    /\ ReaderUntouched
    /\ TriggerUntouched
    /\ JumpUntouched
    /\ UNCHANGED ucall
    /\ TrackingUntouched

(* The user clicks the macros check box: MainWindow._on_macros_toggled. *)
ToggleMacros ==
    /\ setup_done
    /\ LET mt == on_macros_toggled(Engine, ~macros_checkbox, ~macros_checkbox)
       IN /\ SetEngine(mt.e)
          /\ macros_checkbox' = mt.checkbox
          /\ h' = Quiet(IF macros_checkbox THEN "toggle off" ELSE "toggle on", mt.ret, FALSE)
    /\ keys' = << >>
    /\ log' = NoLog
    /\ UNCHANGED <<config_presets, has_presets_key, setup_done, preset_combo, last_tick,
                   run>>
    /\ ReaderUntouched
    /\ TriggerUntouched
    /\ JumpUntouched
    /\ UNCHANGED ucall
    /\ TrackingUntouched

(* The user selects another preset in the combo box. *)
PresetChanged ==
    /\ setup_done
    /\ \E i \in 1..Len(PresetNames(config_presets)) :
          LET preset_name == PresetNames(config_presets)[i]
          IN /\ preset_name # preset_combo
             /\ SetEngine(on_preset_changed(Engine, preset_name))
             /\ preset_combo' = preset_name
             /\ run' = RunAfterPreset(Engine, preset_name)
             /\ h' = Quiet("preset", FALSE, preset_name = current_preset)
    /\ keys' = << >>
    /\ log' = NoLog
    /\ UNCHANGED <<config_presets, has_presets_key, setup_done, macros_checkbox, last_tick>>
    /\ ReaderUntouched
    /\ TriggerUntouched
    /\ JumpUntouched
    /\ UNCHANGED ucall
    /\ TrackingUntouched

(* The user closes the macro settings dialog: MainWindow._on_macros_settings. *)
(* A dialog opened on a configuration without presets saves its own default  *)
(* preset; the combo box is refilled and the selection announced again.      *)
MacrosSettings ==
    /\ setup_done
    /\ \E save \in BOOLEAN :
          LET cfg == IF save /\ PresetNames(config_presets) = << >>
                     THEN DialogPresets
                     ELSE config_presets
              rp == reload_presets(Engine, preset_combo, cfg, None)
          IN /\ config_presets' = cfg
             /\ has_presets_key' = (has_presets_key \/ save)
             /\ SetEngine(rp.e)
             /\ preset_combo' = rp.combo
             /\ run' = RunAfterPreset(Engine, rp.combo)
             /\ h' = Quiet("settings", FALSE, rp.combo = current_preset)
    /\ keys' = << >>
    /\ log' = NoLog
    /\ UNCHANGED <<setup_done, macros_checkbox, last_tick>>
    /\ ReaderUntouched
    /\ TriggerUntouched
    /\ JumpUntouched
    /\ UNCHANGED ucall
    /\ TrackingUntouched

(* One call of update(snap, current_weapon) on the engine as it is, and     *)
(* what it leaves behind.                                                   *)
UpdateStep(op, current_weapon) ==
    /\ \E snap \in Snapshots :
          \E u \in {update(Engine, snap, current_weapon)} :
          LET handled == enabled /\ ~Falsy(current_preset)
              seen == IF u.shot /\ HasRules(presets, current_preset, u.cur)
                         /\ u.log # IndexError
                      THEN Get(last_ammo,
                               RuleInTurn(presets, current_preset, rule_rotation, u.cur)["to"],
                               << >>)
                      ELSE << >>
          IN /\ SetEngine(u.e)
             /\ keys' = u.keys
             /\ log' = u.log
             /\ last_tick' = IF handled THEN [handled |-> TRUE, snap |-> snap] ELSE NoTick
             /\ run' = RunAfterTick(u)
             /\ h' = History(op, FALSE, u.cur, u.shot, handled /\ last_tick.handled,
                             seen, FALSE,
                             /\ handled
                             /\ Increased(last_ammo, snap) # {}
                             /\ Decreased(last_ammo, snap) = {},
                             /\ handled
                             /\ Cardinality(Decreased(last_ammo, snap)) > 1)
    /\ UNCHANGED <<config_presets, has_presets_key, setup_done, macros_checkbox,
                   preset_combo>>
    /\ ReaderUntouched
    /\ TriggerUntouched
    /\ JumpUntouched
    /\ UNCHANGED ucall
    /\ TrackingUntouched

(* One timer tick of AmmoTracker.update_tracking with the game connected:   *)
(* read_all_ammo returns snap and the macro engine is updated with it.      *)
Tick ==
    /\ setup_done
    /\ UpdateStep("tick", NoWeapon)

Next == SetupGui \/ ToggleMacros \/ PresetChanged \/ MacrosSettings \/ Tick

Spec == Init /\ [][Next]_vars

-----------------------------------------------------------------------------
(* The engine on its own: the public methods of MacroEngine called in any   *)
(* order on the constructed engine, the main window left aside.             *)

GuiUntouched ==
    /\ UNCHANGED <<config_presets, has_presets_key, setup_done, macros_checkbox,
                   preset_combo>>
    /\ ReaderUntouched
    /\ TriggerUntouched
    /\ JumpUntouched
    /\ UNCHANGED ucall
    /\ TrackingUntouched

EngineLoadPresets ==
    /\ SetEngine(load_presets(Engine, IF has_presets_key THEN config_presets ELSE EmptyDict))
    /\ h' = Quiet("load_presets", FALSE, FALSE)
    /\ keys' = << >>
    /\ log' = NoLog
    /\ UNCHANGED <<last_tick, run>>
    /\ GuiUntouched

EngineSetActivePreset ==
    /\ \E preset_name \in {"rot", "gate", "empty", "gone"} :
          /\ SetEngine(set_active_preset(Engine, preset_name))
          /\ run' = RunAfterPreset(Engine, preset_name)
          /\ h' = Quiet("set_active_preset", FALSE, preset_name = current_preset)
    /\ keys' = << >>
    /\ log' = NoLog
    /\ UNCHANGED last_tick
    /\ GuiUntouched

EngineEnable ==
    /\ LET r == enable(Engine)
       IN /\ SetEngine(r.e)
          /\ h' = Quiet("enable", r.ret, FALSE)
    /\ keys' = << >>
    /\ log' = NoLog
    /\ UNCHANGED <<last_tick, run>>
    /\ GuiUntouched

EngineDisable ==
    /\ SetEngine(disable(Engine))
    /\ h' = Quiet("disable", FALSE, FALSE)
    /\ keys' = << >>
    /\ log' = NoLog
    /\ UNCHANGED <<last_tick, run>>
    /\ GuiUntouched

EngineUpdate == UpdateStep("update", NoWeapon)

EngineNext ==
    EngineLoadPresets \/ EngineSetActivePreset \/ EngineEnable \/ EngineDisable
        \/ EngineUpdate

EngineSpec == Init /\ [][EngineNext]_vars

(* The engine with update() given the weapon in hand or left to infer it:   *)
(* the methods of EngineSpec, and update() called with any snapshot and     *)
(* with or without a weapon.                                                *)

(* The values of current_weapon: None (NoWeapon) and a slot. *)
GivenWeapons == {NoWeapon, 2}

(* The snapshots update() is called with: every snapshot on an active       *)
(* engine; two of them, which differ in a clip, on an engine that is not    *)
(* active, whose update() returns before it looks at the snapshot.          *)
GivenSnapshots ==
    IF Active(Engine) THEN Snapshots
    ELSE {1 :> <<0, MaxReserve>>, 1 :> <<MaxClip, MaxReserve>>}

EngineUpdateWith ==
    /\ \E snap \in GivenSnapshots, current_weapon \in GivenWeapons :
          \E u \in {update(Engine, snap, current_weapon)} :
             /\ SetEngine(u.e)
             /\ keys' = u.keys
             /\ log' = u.log
             /\ ucall' = [snap |-> snap, given |-> current_weapon, cur |-> u.cur]
    /\ h' = Quiet("call", FALSE, FALSE)
    /\ UNCHANGED <<last_tick, run>>
    /\ UNCHANGED <<config_presets, has_presets_key, setup_done, macros_checkbox,
                   preset_combo>>
    /\ ReaderUntouched
    /\ TriggerUntouched
    /\ JumpUntouched
    /\ TrackingUntouched

UpdateNext ==
    \/ EngineLoadPresets
    \/ EngineSetActivePreset
    \/ EngineEnable
    \/ EngineDisable
    \/ EngineUpdateWith

UpdateSpec == Init /\ [][UpdateNext]_vars

(* The engine on a configuration file written by hand: the dialog offers    *)
(* the slots 1 to 6, a file can name any number.  The first two rules of    *)
(* the preset go to slots that do not exist, the first with a quick switch. *)
HandEditedPresets ==
    [ rot |->
        [rules |-> <<
            [from |-> 1, to |-> 7, check_ammo |-> FALSE, quick_switch |-> TRUE,
             repeat_count |-> 1],
            [from |-> 1, to |-> 0, check_ammo |-> FALSE, quick_switch |-> FALSE,
             repeat_count |-> 1],
            [from |-> 1, to |-> 2, check_ammo |-> FALSE, quick_switch |-> TRUE,
             repeat_count |-> 1] >>] ]

HandEditedInit ==
    /\ has_presets_key = TRUE
    /\ config_presets = HandEditedPresets
    /\ Constructed

SwapSpec == HandEditedInit /\ [][EngineNext]_vars

(* The engine with the macro settings dialog open on the preset rot.  The   *)
(* dialog holds the dictionary config.get('macros.presets') returned, which *)
(* is the one load_presets stored in the engine; the timer keeps calling    *)
(* update() while the dialog is open.                                       *)

(* The rule lists the user saves: the rules of the file, or the first only. *)
SavedRules == {ConfigPresets.rot.rules, <<ConfigPresets.rot.rules[1]>>}

(* MacroSettingsWindow._on_save: the rules of the widgets are stored in the *)
(* preset and the presets written to the configuration.  An engine that has *)
(* loaded the presets reads the new rules from then on.                     *)
SaveRules ==
    /\ has_presets_key
    /\ "rot" \in DOMAIN config_presets
    /\ \E rules \in SavedRules :
          /\ config_presets' = [config_presets EXCEPT !["rot"]["rules"] = rules]
          /\ presets' = IF presets = EmptyDict THEN presets ELSE config_presets'
    /\ h' = Quiet("save", FALSE, FALSE)
    /\ keys' = << >>
    /\ log' = NoLog
    /\ UNCHANGED <<enabled, current_preset, last_ammo, last_weapon_id, rule_rotation>>
    /\ UNCHANGED <<has_presets_key, setup_done, macros_checkbox, preset_combo,
                   last_tick, run>>
    /\ ReaderUntouched
    /\ TriggerUntouched
    /\ JumpUntouched
    /\ UNCHANGED ucall
    /\ TrackingUntouched

EditNext == EngineNext \/ SaveRules

EditInit ==
    /\ has_presets_key = TRUE
    /\ config_presets = ConfigPresets
    /\ Constructed

EditSpec == EditInit /\ [][EditNext]_vars

-----------------------------------------------------------------------------
(* The memory reader on its own: its methods called in any order, each read *)
(* on the memory the game has at the time of the call.                      *)

MacrosUntouched ==
    UNCHANGED <<enabled, current_preset, presets, last_ammo, last_weapon_id,
                rule_rotation, config_presets, has_presets_key, setup_done,
                macros_checkbox, preset_combo, keys, log, last_tick, run, h, ucall>>

Called(op, arg, mem, ret, raised) ==
    call' = [op |-> op, arg |-> arg, mem |-> mem, ret |-> ret, raised |-> raised]

ReaderConnect ==
    /\ \E outcome \in ConnectOutcomes :
          \E c \in {connect(reader, outcome)} :
             /\ reader' = c.r
             /\ Called("connect", 0, << >>, c.ret, FALSE)
    /\ UNCHANGED last_good
    /\ MacrosUntouched
    /\ TriggerUntouched
    /\ JumpUntouched
    /\ TrackingUntouched

ReaderDisconnect ==
    /\ reader' = disconnect(reader)
    /\ Called("disconnect", 0, << >>, Nil, FALSE)
    /\ UNCHANGED last_good
    /\ MacrosUntouched
    /\ TriggerUntouched
    /\ JumpUntouched
    /\ TrackingUntouched

ReaderSetOffsets ==
    /\ \E offsets \in {ConfigOffsets, ChainOnlyOffsets} :
          reader' = set_offsets(reader, offsets)
    /\ Called("set_offsets", 0, << >>, Nil, FALSE)
    /\ UNCHANGED last_good
    /\ MacrosUntouched
    /\ TriggerUntouched
    /\ JumpUntouched
    /\ TrackingUntouched

ReaderReadInt32 ==
    /\ \E mem \in TypedMemories :
          \E x \in {read_int32(reader, mem, BaseCell)} :
             Called("read_int32", BaseCell, mem, x.ret, x.raised)
    /\ UNCHANGED <<reader, last_good>>
    /\ MacrosUntouched
    /\ TriggerUntouched
    /\ JumpUntouched
    /\ TrackingUntouched

ReaderReadFloat ==
    /\ \E mem \in TypedMemories :
          \E x \in {read_float(reader, mem, BaseCell)} :
             Called("read_float", BaseCell, mem, x.ret, x.raised)
    /\ UNCHANGED <<reader, last_good>>
    /\ MacrosUntouched
    /\ TriggerUntouched
    /\ JumpUntouched
    /\ TrackingUntouched

ReaderReadPointer ==
    /\ \E mem \in TypedMemories :
          \E x \in {read_pointer(reader, mem, BaseCell)} :
             Called("read_pointer", BaseCell, mem, x.ret, x.raised)
    /\ UNCHANGED <<reader, last_good>>
    /\ MacrosUntouched
    /\ TriggerUntouched
    /\ JumpUntouched
    /\ TrackingUntouched

ReaderFollowPointerChain ==
    /\ \E mem \in ChainMemories :
          \E x \in {follow_pointer_chain(reader, mem)} :
             Called("follow_pointer_chain", 0, mem, x.ret, x.raised)
    /\ UNCHANGED <<reader, last_good>>
    /\ MacrosUntouched
    /\ TriggerUntouched
    /\ JumpUntouched
    /\ TrackingUntouched

ReaderReadSlotAmmo ==
    /\ \E mem \in AmmoMemories, slot_id \in {1, 2} :
          \E x \in {read_slot_ammo(reader, mem, slot_id)} :
             Called("read_slot_ammo", slot_id, mem, x.ret, x.raised)
    /\ UNCHANGED <<reader, last_good>>
    /\ MacrosUntouched
    /\ TriggerUntouched
    /\ JumpUntouched
    /\ TrackingUntouched

ReaderReadAllAmmo ==
    /\ \E mem \in AmmoMemories :
          \E x \in {read_all_ammo(reader, mem)} :
             /\ reader' = x.r
             /\ Called("read_all_ammo", 0, mem, x.ret, x.raised)
             /\ last_good' = GoodAfter(reader, mem, last_good)
    /\ MacrosUntouched
    /\ TriggerUntouched
    /\ JumpUntouched
    /\ TrackingUntouched

ReaderReadActiveWeapon ==
    /\ \E mem \in ActiveWeaponMemories :
          \E x \in {read_active_weapon(reader, mem)} :
             /\ reader' = x.r
             /\ Called("read_active_weapon", 0, mem, x.ret, x.raised)
    /\ UNCHANGED last_good
    /\ MacrosUntouched
    /\ TriggerUntouched
    /\ JumpUntouched
    /\ TrackingUntouched

ReaderGetCachedAmmo ==
    /\ \E slot_id \in {1, 2} :
          Called("get_cached_ammo", slot_id, << >>, get_cached_ammo(reader, slot_id), FALSE)
    /\ UNCHANGED <<reader, last_good>>
    /\ MacrosUntouched
    /\ TriggerUntouched
    /\ JumpUntouched
    /\ TrackingUntouched

ReaderReadCrosshairOnEnemy ==
    /\ \E mem \in TargetMemories :
          \E x \in {read_crosshair_on_enemy(reader, mem)} :
             /\ reader' = x.r
             /\ Called("read_crosshair_on_enemy", 0, mem, x.ret, x.raised)
    /\ UNCHANGED last_good
    /\ MacrosUntouched
    /\ TriggerUntouched
    /\ JumpUntouched
    /\ TrackingUntouched

ReaderNext ==
    \/ ReaderConnect
    \/ ReaderDisconnect
    \/ ReaderSetOffsets
    \/ ReaderReadInt32
    \/ ReaderReadFloat
    \/ ReaderReadPointer
    \/ ReaderFollowPointerChain
    \/ ReaderReadSlotAmmo
    \/ ReaderReadAllAmmo
    \/ ReaderReadActiveWeapon
    \/ ReaderGetCachedAmmo
    \/ ReaderReadCrosshairOnEnemy

(* The macro engine takes no step here: one configuration is enough. *)
ReaderInit == Init /\ has_presets_key

ReaderSpec == ReaderInit /\ [][ReaderNext]_vars

-----------------------------------------------------------------------------
(* The trigger bot on the reader: the reader is attached and given offsets, *)
(* and the methods of the trigger bot are called in any order, each on the  *)
(* desktop and the memory of the time of the call.                          *)

(* The memories update() is tried on: the way to the target broken at its   *)
(* first link, whole with a null target, whole with a target.               *)
TriggerMemories ==
    { << >>, TargetPrefix(Len(TargetChain)) @@ Cell(TargetCell, <<0>>),
      TargetPrefix(Len(TargetChain)) @@ Cell(TargetCell, <<Game.target>>) }

(* The game window is there under one of the titles enable() tries. *)
Located(env) == \E t \in Titles : FindWindow(env, t) # 0

(* The window of the trigger bot is there and takes messages. *)
WindowValid(t, env) == ~NoWindow(env, t.game_hwnd) /\ env.post_ok

TriggerCalled(op, ret, mem, env, posted, caught) ==
    tcall' = [op |-> op, ret |-> ret, enabled |-> trigger.enabled,
              holding |-> trigger.is_holding, on_reticle |-> OnReticle(reader, mem),
              window |-> WindowValid(trigger, env), posted |-> posted,
              caught |-> caught, found |-> op = "enable" /\ Located(env)]

ReaderAsItWas == UNCHANGED <<reader, call, last_good>>

TriggerSetReactionDelay ==
    /\ \E delay \in {10, 100} :
          LET bounds == ReactionDelays(delay)
          IN /\ trigger' = set_reaction_delay(trigger, bounds.min_delay, bounds.max_delay)
             /\ TriggerCalled("set_reaction_delay", FALSE, << >>,
                              [windows |-> { }, post_ok |-> FALSE, high |-> FALSE],
                              << >>, FALSE)
    /\ UNCHANGED events
    /\ ReaderAsItWas
    /\ MacrosUntouched
    /\ JumpUntouched
    /\ TrackingUntouched

TriggerEnable ==
    /\ \E windows \in SUBSET Titles :
          \E env \in {[windows |-> windows, post_ok |-> TRUE, high |-> FALSE]} :
             \E x \in {trigger_enable(trigger, env)} :
                /\ trigger' = x.t
                /\ TriggerCalled("enable", x.ret, << >>, env, << >>, FALSE)
    /\ UNCHANGED events
    /\ ReaderAsItWas
    /\ MacrosUntouched
    /\ JumpUntouched
    /\ TrackingUntouched

TriggerDisable ==
    /\ Len(events) < MaxEvents
    /\ \E env \in Desktops :
          \E x \in {trigger_disable(trigger, env)} :
             /\ trigger' = x.t
             /\ events' = events \o x.events
             /\ TriggerCalled("disable", FALSE, << >>, env, x.events, FALSE)
    /\ ReaderAsItWas
    /\ MacrosUntouched
    /\ JumpUntouched
    /\ TrackingUntouched

TriggerUpdate ==
    /\ Len(events) < MaxEvents
    /\ \E mem \in TriggerMemories, env \in Desktops :
          \E x \in {trigger_update(trigger, reader, mem, env)} :
             /\ trigger' = x.t
             /\ reader' = x.r
             /\ events' = events \o x.events
             /\ TriggerCalled("update", FALSE, mem, env, x.events, x.caught)
    /\ UNCHANGED <<call, last_good>>
    /\ MacrosUntouched
    /\ JumpUntouched
    /\ TrackingUntouched

TriggerNext ==
    \/ ReaderConnect
    \/ ReaderSetOffsets
    \/ TriggerSetReactionDelay
    \/ TriggerEnable
    \/ TriggerDisable
    \/ TriggerUpdate

TriggerSpec == ReaderInit /\ [][TriggerNext]_vars

-----------------------------------------------------------------------------
(* The AutoJump: its public methods are called in any order on the thread   *)
(* of the timer, each on the desktop of the time of the call, and the burst *)
(* threads take their steps in between.                                     *)

(* What a step leaves behind for the properties: the method or the place   *)
(* of the thread, what enable() returned, whether the AutoJump was enabled  *)
(* before, whether enable() had a game window to find, whether the window   *)
(* the AutoJump holds, or finds again, for the game had the focus on the    *)
(* tick of update(), and the thread as the step left it.                    *)
JumpCalled(op, ret, found, focus, w) ==
    jcall' = [op |-> op, ret |-> ret, enabled |-> jump.enabled, found |-> found,
              focus |-> focus, w |-> w]

(* The desktop of enable(), which looks at the windows only. *)
WindowsOnly(windows) == [windows |-> windows, foreground |-> 0, is_pressed |-> FALSE]

(* A burst thread after disable() was called. *)
Disabled(w) == [w EXCEPT !.disabled = TRUE]

RestUntouched ==
    MacrosUntouched /\ ReaderAsItWas /\ TriggerUntouched /\ TrackingUntouched

JumpEnable ==
    /\ \E windows \in SUBSET Titles, config_repeat_count \in ConfigRepeatCounts :
          \E x \in {jump_enable(jump, WindowsOnly(windows), config_repeat_count)} :
             /\ jump' = x.j
             /\ JumpCalled("enable", x.ret, Located(WindowsOnly(windows)), FALSE, NewWorker)
    /\ UNCHANGED <<workers, last_key, held>>
    /\ RestUntouched

JumpDisable ==
    /\ jump' = jump_disable(jump)
    /\ workers' = BagOfAll(Disabled, workers)
    /\ JumpCalled("disable", FALSE, FALSE, FALSE, NewWorker)
    /\ UNCHANGED <<last_key, held>>
    /\ RestUntouched

JumpSetRepeatCount ==
    /\ \E count \in {0, 2} : jump' = set_repeat_count(jump, count)
    /\ JumpCalled("set_repeat_count", FALSE, FALSE, FALSE, NewWorker)
    /\ UNCHANGED <<workers, last_key, held>>
    /\ RestUntouched

(* update() on a tick of the timer; a burst thread is started when spawn. *)
JumpUpdate ==
    /\ \E env \in JumpDesktops :
          \E x \in {jump_update(jump, env)} :
             /\ x.spawn => BagCardinality(workers) < MaxWorkers
             /\ jump' = x.j
             /\ workers' = IF x.spawn THEN workers (+) SetToBag({NewWorker}) ELSE workers
             /\ last_key' = env.is_pressed
             /\ held' = (env.is_pressed /\ (jump.enabled \/ held))
             /\ JumpCalled("update", FALSE, FALSE, _is_game_window_active(jump, env).ret,
                           NewWorker)
    /\ RestUntouched

(* One step of the burst thread w; the thread is gone after its finally     *)
(* clause.                                                                  *)
WorkerStepOf(w) ==
    /\ \E x \in {_perform_auto_jumps(jump, w)} :
          /\ jump' = x.j
          /\ workers' = IF x.w.pc = "done"
                        THEN workers (-) SetToBag({w})
                        ELSE (workers (-) SetToBag({w})) (+) SetToBag({x.w})
          /\ JumpCalled(w.pc, FALSE, FALSE, FALSE, x.w)
    /\ UNCHANGED <<last_key, held>>
    /\ RestUntouched

(* One step of a burst thread. *)
WorkerStep == \E w \in BagToSet(workers) : WorkerStepOf(w)

JumpNext ==
    \/ JumpEnable
    \/ JumpDisable
    \/ JumpSetRepeatCount
    \/ JumpUpdate
    \/ WorkerStep

JumpSpec == ReaderInit /\ [][JumpNext]_vars

(* The AutoJump with one burst thread followed from its start to its end:   *)
(* any thread that has not run yet can be the one, when none is followed.   *)
Watched == {w \in BagToSet(workers) : w.watched}

Watch ==
    /\ Watched = {}
    /\ \E w \in BagToSet(workers) :
          /\ w.pc = "start"
          /\ workers' = (workers (-) SetToBag({w}))
                           (+) SetToBag({[w EXCEPT !.watched = TRUE]})
    /\ UNCHANGED <<jump, jcall, last_key, held>>
    /\ RestUntouched

WatchNext ==
    \/ JumpNext
    \/ Watch

(* The threads are daemon threads of the interpreter, which the operating   *)
(* system schedules: a thread that can take a step takes it in the end,     *)
(* whatever the other threads do.                                           *)
FairJumpSpec ==
    /\ ReaderInit /\ [][WatchNext]_vars
    /\ WF_vars(\E w \in Watched : WorkerStepOf(w))

(* enable() and disable() of the trigger bot and of the AutoJump, called in *)
(* any order.                                                               *)
EnableNext ==
    \/ TriggerEnable
    \/ TriggerDisable
    \/ JumpEnable
    \/ JumpDisable

EnableSpec == ReaderInit /\ [][EnableNext]_vars

-----------------------------------------------------------------------------
(* The AmmoTracker (src/main.py) with its timer: the game process runs or   *)
(* is gone, the user connects, starts and stops the tracking and ticks the  *)
(* check boxes of the trigger bot and of the AutoJump, and the timer calls  *)
(* update_tracking while the tracking is on.  The macros stay off and the   *)
(* jump key is not pressed.                                                 *)

(* The outcomes connect() can have: with the game running, any but "not    *)
(* found"; with the game gone, "not found".                                 *)
OutcomesNow == IF process.up THEN ConnectOutcomes \ {"not found"} ELSE {"not found"}

(* The memory a tick reads: nothing can be read through the handle of a     *)
(* process that is gone; the memory of a running game is unreadable, or     *)
(* whole with a target.                                                     *)
MemoriesNow ==
    IF process.up /\ ~process.lost
    THEN { << >>, TargetPrefix(Len(TargetChain)) @@ Cell(TargetCell, <<Game.target>>) }
    ELSE { << >> }

(* The windows there are: the window of the game, while the game runs. *)
WindowsNow == IF process.up THEN {"Pixel Gun 3D"} ELSE { }

(* The desktop as the trigger bot and as the AutoJump look at it. *)
TriggerDesktopNow == [windows |-> WindowsNow, post_ok |-> TRUE, high |-> FALSE]

JumpDesktopNow ==
    [windows |-> WindowsNow,
     foreground |-> IF process.up THEN Hwnd["Pixel Gun 3D"] ELSE 0,
     is_pressed |-> FALSE]

(* The value 'auto_jump.repeat_count' has in the configuration by default. *)
DefaultJumpRepeatCount == 2

(* The delay of the spin box of the trigger bot, in ms. *)
SpinBoxDelay == 100

(* The observation variables of the components are left alone. *)
ObserversUntouched ==
    UNCHANGED <<call, last_good, tcall, jcall, last_key, held, workers>>

(* The game process exits; a reader attached to it holds a dead handle. *)
GameExits ==
    /\ process.up
    /\ process' = [up |-> FALSE, lost |-> process.lost \/ is_connected(reader)]
    /\ UNCHANGED <<app, ptick, reader, trigger, events, jump>>
    /\ ObserversUntouched
    /\ MacrosUntouched

(* The game is started. *)
GameStarts ==
    /\ ~process.up
    /\ process' = [process EXCEPT !.up = TRUE]
    /\ UNCHANGED <<app, ptick, reader, trigger, events, jump>>
    /\ ObserversUntouched
    /\ MacrosUntouched

(* AmmoTracker.reconnect_to_game, from setup_gui or the button of the      *)
(* window: a handle that connect() opens is the handle of the running game. *)
ReconnectToGame ==
    /\ \E outcome \in OutcomesNow :
          /\ reader' = connect(reader, outcome).r
          /\ process' = [process EXCEPT !.lost = IF outcome = "not found" THEN @ ELSE FALSE]
    /\ UNCHANGED <<app, ptick, trigger, events, jump>>
    /\ ObserversUntouched
    /\ MacrosUntouched

(* AmmoTracker.start_tracking *)
StartTracking ==
    /\ app' = IF ~is_connected(reader) THEN app ELSE [app EXCEPT !.is_tracking = TRUE]
    /\ UNCHANGED <<process, ptick, reader, trigger, events, jump>>
    /\ ObserversUntouched
    /\ MacrosUntouched

(* AmmoTracker.stop_tracking *)
StopTracking ==
    /\ app' = [app EXCEPT !.is_tracking = FALSE]
    /\ UNCHANGED <<process, ptick, reader, trigger, events, jump>>
    /\ ObserversUntouched
    /\ MacrosUntouched

(* AmmoTracker.on_trigger_toggled, from the check box: ticking it sets the  *)
(* delays and calls enable(), and a failed enable() unticks the box, which  *)
(* comes back as on_trigger_toggled(False); unticking it calls disable().   *)
TriggerToggled ==
    /\ LET bounds == ReactionDelays(SpinBoxDelay)
           delayed == set_reaction_delay(trigger, bounds.min_delay, bounds.max_delay)
           on == trigger_enable(delayed, TriggerDesktopNow)
           off == trigger_disable(IF trigger.enabled THEN trigger ELSE on.t,
                                  TriggerDesktopNow)
       IN IF ~trigger.enabled /\ on.ret
          THEN trigger' = on.t /\ UNCHANGED events
          ELSE trigger' = off.t /\ events' = events \o off.events
    /\ UNCHANGED <<app, process, ptick, reader, jump>>
    /\ ObserversUntouched
    /\ MacrosUntouched

(* AmmoTracker.on_auto_jump_toggled, from the check box, in the same way. *)
AutoJumpToggled ==
    /\ LET on == jump_enable(jump, JumpDesktopNow, DefaultJumpRepeatCount)
       IN jump' = IF ~jump.enabled /\ on.ret THEN on.j
                  ELSE jump_disable(IF jump.enabled THEN jump ELSE on.j)
    /\ UNCHANGED <<app, process, ptick, reader, trigger, events>>
    /\ ObserversUntouched
    /\ MacrosUntouched

(* What a tick leaves behind for the properties: whether the reader held    *)
(* the handle of a process that is gone, whether the tick tried to          *)
(* reconnect, whether it called update() of the trigger bot and of the      *)
(* AutoJump, and the parity of the ticks.                                   *)
Ticked(attempted, updated) ==
    ptick' = [op |-> "tick", down |-> process.lost, attempted |-> attempted,
              trigger |-> updated, jump |-> updated, odd |-> ~ptick.odd]

(* AmmoTracker.update_tracking, called by the timer while the tracking is   *)
(* on: without a connection it reconnects, if so configured, and returns;   *)
(* with one it reads the ammunition and updates the macro engine, the       *)
(* trigger bot and the AutoJump, an exception ending the tick.              *)
UpdateTracking ==
    /\ app.is_tracking
    /\ IF ~is_connected(reader)
       THEN /\ \E outcome \in OutcomesNow :
                  /\ reader' = IF app.auto_reconnect THEN connect(reader, outcome).r
                               ELSE reader
                  /\ process' = [process EXCEPT
                                   !.lost = IF app.auto_reconnect /\ outcome # "not found"
                                            THEN FALSE ELSE @]
            /\ Ticked(app.auto_reconnect, FALSE)
            /\ UNCHANGED <<trigger, events, jump>>
            /\ MacrosUntouched
       ELSE /\ \E mem \in MemoriesNow :
                  \E all_ammo \in {read_all_ammo(reader, mem)} :
                     IF all_ammo.raised
                     THEN /\ reader' = all_ammo.r
                          /\ Ticked(FALSE, FALSE)
                          /\ UNCHANGED <<trigger, events, jump>>
                          /\ MacrosUntouched
                     ELSE \E u \in {update(Engine, all_ammo.ret, NoWeapon)} :
                          \E t \in {trigger_update(trigger, all_ammo.r, mem,
                                                     TriggerDesktopNow)} :
                          \E j \in {jump_update(jump, JumpDesktopNow)} :
                             /\ SetEngine(u.e)
                             /\ keys' = u.keys
                             /\ log' = u.log
                             /\ UNCHANGED <<config_presets, has_presets_key, setup_done,
                                            macros_checkbox, preset_combo, last_tick,
                                            run, h, ucall>>
                             /\ reader' = t.r
                             /\ trigger' = t.t
                             /\ events' = events \o t.events
                             /\ ~j.spawn
                             /\ jump' = j.j
                             /\ Ticked(FALSE, TRUE)
            /\ UNCHANGED process
    /\ UNCHANGED app
    /\ ObserversUntouched

TrackNext ==
    \/ GameExits
    \/ GameStarts
    \/ ReconnectToGame
    \/ StartTracking
    \/ StopTracking
    \/ TriggerToggled
    \/ AutoJumpToggled
    \/ UpdateTracking

TrackSpec == ReaderInit /\ [][TrackNext]_vars

(* The timer fires again and again while the tracking is on. *)
FairTrackSpec == TrackSpec /\ WF_vars(UpdateTracking)

-----------------------------------------------------------------------------
(* Properties *)

(* The cursor of a slot, a missing cursor standing for the one created at   *)
(* the first shot.                                                          *)
CursorOf(rot, from_weapon) ==
    IF from_weapon \in DOMAIN rot
    THEN rot[from_weapon]
    ELSE [current_rule_idx |-> 0, counter |-> 0]

(* The clip the engine holds for a slot; -1 when it holds none. *)
ClipOf(la, slot) == IF slot \in DOMAIN la THEN la[slot][1] ELSE -1

(* The key presses of a swap as the specification orders them. *)
ExpectedKeys(to_slot, use_quick_switch) ==
    IF use_quick_switch /\ to_slot # knife_slot
    THEN <<_get_weapon_key(knife_slot), _get_weapon_key(to_slot)>>
    ELSE <<_get_weapon_key(to_slot)>>

(* The cursor after a swap that counts for a rule with the given repeat count. *)
ExpectedAdvance(cursor, repeat_count, n) ==
    IF cursor.counter + 1 >= repeat_count
    THEN [current_rule_idx |-> (cursor.current_rule_idx + 1) % n, counter |-> 0]
    ELSE [current_rule_idx |-> cursor.current_rule_idx, counter |-> cursor.counter + 1]

(* This step is an update tick in which a shot of a slot with rules was     *)
(* handled.                                                                 *)
ShotStep ==
    /\ h'.op = "tick"
    /\ h'.shot
    /\ Active(Engine)
    /\ HasRules(presets, current_preset, h'.cur)

(* C1: on an update tick handled by the enabled engine right after another  *)
(* handled tick, a shot is detected for the current slot exactly when the   *)
(* slot is in the previous and in the new snapshot and its clip is strictly *)
(* smaller in the new one.                                                  *)
C1_ShotIffClipDecreased ==
    [][ (h'.op = "tick" /\ enabled /\ ~Falsy(current_preset) /\ last_tick.handled) =>
          LET s == h'.cur
              previous == last_tick.snap
              new == last_tick'.snap
          IN h'.shot <=> /\ s \in DOMAIN previous
                         /\ s \in DOMAIN new
                         /\ new[s][1] < previous[s][1] ]_vars

(* C1 witness: a shot was detected on the second of two handled ticks. *)
C1_Witness == h.op = "tick" /\ h.consecutive /\ h.shot

RECURSIVE ExpandRules(_)
(* The targets of one cycle: each rule's target, repeat_count times, in order. *)
ExpandRules(rules) ==
    IF rules = << >> THEN << >>
    ELSE [i \in 1..Get(Head(rules), "repeat_count", DefaultRepeatCount) |-> Head(rules)["to"]]
         \o ExpandRules(Tail(rules))

(* C2: the swap targets of the consecutive shots of a slot whose swaps are  *)
(* never cancelled follow the rules of the slot in the order of the preset, *)
(* each rule repeat_count times, and start over after the last rule.        *)
C2_Rotation ==
    run.slot # NoWeapon =>
        LET cycle == ExpandRules(MatchingRules(presets, current_preset, run.slot))
        IN \A i \in 1..Len(run.targets) :
              run.targets[i] = cycle[((i - 1) % Len(cycle)) + 1]

(* C2 witness: rules {to 2, twice}, {to 4, once} gave 2, 2, 4 and 2 again. *)
C2_Witness == current_preset = "rot" /\ run.slot = 1 /\ run.targets = <<2, 2, 4, 2>>

(* C3: when the rule in turn checks the ammo, its target has an empty clip  *)
(* and its fallback slot is set and has a loaded clip, the swap goes to the *)
(* fallback slot with fallback_quick_switch as the quick switch flag, and   *)
(* the cursor moves as after any swap, by the repeat_count of the rule.     *)
C3_Fallback ==
    [][ ShotStep =>
          LET f == h'.cur
              rule == RuleInTurn(presets, current_preset, rule_rotation, f)
              fallback_slot == Get(rule, "fallback_to", NoFallback)
              n == Len(MatchingRules(presets, current_preset, f))
          IN (/\ Get(rule, "check_ammo", TRUE)
              /\ ClipOf(last_ammo, rule["to"]) = 0
              /\ fallback_slot > 0
              /\ ClipOf(last_ammo, fallback_slot) > 0)
             => /\ keys' = ExpectedKeys(fallback_slot,
                                        Get(rule, "fallback_quick_switch", FALSE))
                /\ f \in DOMAIN rule_rotation'
                /\ rule_rotation'[f] =
                      ExpectedAdvance(CursorOf(rule_rotation, f),
                                      Get(rule, "repeat_count", DefaultRepeatCount), n) ]_vars

(* C3 witness: a rule without quick switch fell back, with the quick switch *)
(* of its fallback, from a target whose clip was empty.                     *)
C3_Witness ==
    /\ h.op = "tick"
    /\ log.event = "swap [FALLBACK]"
    /\ Len(h.seen) = 2
    /\ h.seen[1] = 0
    /\ keys = <<"q", "2">>

(* C4: when the rule in turn checks the ammo, its target has an empty clip  *)
(* and no fallback slot is set or the fallback slot has an empty clip too,  *)
(* no key is sent, the counter is reset and the next rule is in turn.       *)
C4_AbortedSwap ==
    [][ ShotStep =>
          LET f == h'.cur
              rule == RuleInTurn(presets, current_preset, rule_rotation, f)
              fallback_slot == Get(rule, "fallback_to", NoFallback)
              n == Len(MatchingRules(presets, current_preset, f))
          IN (/\ Get(rule, "check_ammo", TRUE)
              /\ ClipOf(last_ammo, rule["to"]) = 0
              /\ (fallback_slot = NoFallback \/ ClipOf(last_ammo, fallback_slot) = 0))
             => /\ keys' = << >>
                /\ f \in DOMAIN rule_rotation'
                /\ rule_rotation'[f] =
                      [current_rule_idx |->
                          (CursorOf(rule_rotation, f).current_rule_idx + 1) % n,
                       counter |-> 0] ]_vars

(* C4 witness: the second shot of a rule of two was cancelled because the   *)
(* target and the fallback were empty, and the other rule is in turn.       *)
C4_Witness ==
    /\ h.op = "tick"
    /\ log.event = "cancelled: fallback empty"
    /\ Len(h.seen) = 2
    /\ h.seen[1] = 0
    /\ log.shot = 2
    /\ log.of = 2
    /\ keys = << >>
    /\ rule_rotation[log.from] = [current_rule_idx |-> 1, counter |-> 0]

(* The handlers that announce the selected preset to the engine. *)
Announces(op) == op \in {"preset", "settings", "setup on", "setup off"}

(* C5: selecting a loaded preset, the active one included, resets every     *)
(* cursor: the next shot of any slot is shot 1 of rule 1.                   *)
C5_PresetResetsCursors ==
    [][ /\ (Announces(h'.op) /\ preset_combo' # "" /\ preset_combo' \in DOMAIN presets')
           => (rule_rotation' = EmptyDict /\ current_preset' = preset_combo')
        /\ (ShotStep /\ rule_rotation = EmptyDict)
           => (log'.rule = 1 /\ log'.shot = 1) ]_vars

(* C5 witness: the active preset was selected again while cursors existed. *)
C5_Witness ==
    /\ h.op = "settings"
    /\ h.same
    /\ h.had_cursors
    /\ rule_rotation = EmptyDict

C7_NotEnabledAfterFailure ==
    [][ h'.op = "enable" =>
          /\ h'.ret <=> /\ ~Falsy(current_preset)
                         /\ current_preset \in DOMAIN presets
                         /\ Get(presets[current_preset], "rules", << >>) # << >>
          /\ ~h'.ret => ~enabled' ]_vars

(* C7 as amended: enable() succeeds exactly when a preset is active and has *)
(* a rule; a successful call leaves the engine enabled and a failed call    *)
(* leaves the enabled flag as it was.                                       *)
C7_EnableNeedsRules ==
    [][ h'.op = "enable" =>
          /\ h'.ret <=> /\ ~Falsy(current_preset)
                         /\ current_preset \in DOMAIN presets
                         /\ Get(presets[current_preset], "rules", << >>) # << >>
          /\ h'.ret => enabled'
          /\ ~h'.ret => (enabled' <=> enabled) ]_vars

(* C7 witness: enable() failed on an enabled engine whose active preset has *)
(* no rules.                                                                *)
C7_Witness ==
    /\ h.op = "enable"
    /\ ~h.ret
    /\ enabled
    /\ current_preset = "empty"

(* C8: a tick of a disabled engine, or of one without active preset, sends  *)
(* no key and changes no cursor.                                            *)
C8_DisabledTickNoOp ==
    [][ (h'.op = "tick" /\ (~enabled \/ Falsy(current_preset)))
          => (keys' = << >> /\ rule_rotation' = rule_rotation) ]_vars

(* C8 witness: a tick went by a disabled engine that has cursors. *)
C8_Witness ==
    /\ h.op = "tick"
    /\ ~enabled
    /\ ~last_tick.handled
    /\ rule_rotation # EmptyDict

(* C9: a swap to a slot sends the knife key and then the key of the slot    *)
(* when the quick switch flag in force is set and the slot is not the knife *)
(* slot, and the key of the slot alone otherwise.                           *)
C9_SwapKeyOrder ==
    (log.event \in {"swap", "swap [FALLBACK]"} /\ log.to \in MinSlot..MaxSlot)
        => keys = ExpectedKeys(log.to, log.qs)

(* C9 witness: a quick switch sent the knife key before the key of slot 4. *)
C9_Witness ==
    /\ log.event = "swap"
    /\ log.qs
    /\ log.to = 4
    /\ keys = <<"q", "4">>

(* C10: a rule that checks the ammo swaps to its target exactly when the    *)
(* engine holds the target slot with a clip above 0; an empty clip with a   *)
(* reserve, or a slot the engine does not hold, is no ammo.                 *)
C10_AmmoIsClipOnly ==
    (h.op = "tick" /\ log.event # "none"
        /\ Get(MatchingRules(presets, current_preset, log.from)[log.rule], "check_ammo", TRUE))
        => (log.event = "swap" <=> (Len(h.seen) = 2 /\ h.seen[1] > 0))

(* C10 witness: the target had an empty clip and a reserve, and the swap    *)
(* to it was not made.                                                      *)
C10_Witness ==
    /\ h.op = "tick"
    /\ log.event = "cancelled: no fallback"
    /\ Len(h.seen) = 2
    /\ h.seen[1] = 0
    /\ h.seen[2] > 0

(* This step is an update tick the engine handles. *)
HandledTick == h'.op = "tick" /\ last_tick'.handled

C12_BrokenLinkAborts ==
    (call.op = "follow_pointer_chain" /\ SlotsResolved(reader, call.mem) = Nil)
        => call.ret = Nil

(* C13: the dictionary read_all_ammo returns has slot k exactly when the    *)
(* chain resolved and the clip and the reserve of slot k were read in this  *)
(* call, and then with these two values.                                    *)
C13_FullReadsOnly ==
    call.op = "read_all_ammo" =>
        \A slot_id \in MinSlot..MaxSlot :
            /\ slot_id \in DOMAIN call.ret <=> FullRead(reader, call.mem, slot_id)
            /\ slot_id \in DOMAIN call.ret
                  => call.ret[slot_id] = SlotValue(reader, call.mem, slot_id)

(* C13 witness: of two slots on a resolved chain one was read in full and   *)
(* the other, its reserve unreadable, is missing.                           *)
C13_Witness ==
    /\ call.op = "read_all_ammo"
    /\ SlotsResolved(reader, call.mem) # Nil
    /\ ClipCell(1) \in DOMAIN call.mem
    /\ ReserveCell(1) \notin DOMAIN call.mem
    /\ DOMAIN call.ret = {2}

(* C14: the cached value of every slot is the value of its latest full read *)
(* by read_all_ammo; a slot never read in full has no cached value.         *)
C14_CacheIsLatestFullRead ==
    \A slot_id \in MinSlot..MaxSlot :
        get_cached_ammo(reader, slot_id) =
            IF slot_id \in DOMAIN last_good THEN last_good[slot_id] ELSE Nil

(* C14 witness: read_all_ammo failed on slot 1, whose clip was readable as  *)
(* 0, and the cache still holds the clip of 1 read before.                  *)
C14_Witness ==
    /\ call.op = "read_all_ammo"
    /\ 1 \notin DOMAIN call.ret
    /\ ClipCell(1) \in DOMAIN call.mem
    /\ call.mem[ClipCell(1)] = 0
    /\ get_cached_ammo(reader, 1) = <<1, 0>>

(* C15: read_crosshair_on_enemy returns True exactly when the reader is     *)
(* attached, every pointer on the way to the target is readable and not     *)
(* null and so is the target pointer, whatever it remembers of earlier      *)
(* calls.                                                                   *)
C15_ReticleFromThisRead ==
    call.op = "read_crosshair_on_enemy" => (call.ret <=> OnReticle(reader, call.mem))

(* C15 witness: the reader remembers a target from an earlier call, the way *)
(* to the target is broken now and the answer is False.                     *)
C15_Witness ==
    /\ call.op = "read_crosshair_on_enemy"
    /\ reader.last_target_state = <<TRUE>>
    /\ reader.pm
    /\ ~OnReticle(reader, call.mem)
    /\ call.ret = FALSE

(* C16: no method of the reader raises to its caller. *)
C16_NeverRaises == ~call.raised

(* C16 witness: a slot was read by an attached reader that has the chain    *)
(* offsets and no slot offsets; the TypeError was caught and None returned. *)
C16_Witness ==
    /\ call.op = "read_slot_ammo"
    /\ reader.pm
    /\ reader.offsets.weapon_slots_base # Nil
    /\ reader.offsets.slot_offset = Nil
    /\ SlotsResolved(reader, call.mem) # Nil
    /\ call.ret = Nil
    /\ ~call.raised

(* C17: a tick of an enabled trigger bot that is not holding, reads the     *)
(* target on the reticle and has its window posts one button-down and ends  *)
(* holding.                                                                 *)
C17_AcquisitionHolds ==
    (/\ tcall.op = "update"
     /\ tcall.enabled
     /\ ~tcall.holding
     /\ tcall.on_reticle
     /\ tcall.window)
        => /\ Len(tcall.posted) = 1
           /\ tcall.posted[1].kind = "down"
           /\ trigger.is_holding

(* The trigger bot as the program has it never holds the button and never   *)
(* posts a message: every tick of an enabled trigger bot ends in the        *)
(* handler of update().                                                     *)
TriggerNeverHolds ==
    /\ ~trigger.is_holding
    /\ events = << >>
    /\ ~trigger.last_state
    /\ (tcall.op = "update" /\ tcall.enabled) => tcall.caught

(* C21, as stated: after an enable() of the trigger bot or of the AutoJump  *)
(* that failed, the component is not enabled.                               *)
C21_NotEnabledAfterFailedEnable ==
    /\ (tcall.op = "enable" /\ ~tcall.ret) => ~trigger.enabled
    /\ (jcall.op = "enable" /\ ~jcall.ret) => ~jump.enabled

(* C21: enable() of the trigger bot and of the AutoJump returns True        *)
(* exactly when the game window is there under one of the two titles; then  *)
(* the component is enabled, and otherwise its enabled flag is as it was    *)
(* before the call.                                                         *)
C21_EnableNeedsWindow ==
    /\ tcall.op = "enable" =>
          /\ tcall.ret <=> tcall.found
          /\ trigger.enabled = (tcall.ret \/ tcall.enabled)
    /\ jcall.op = "enable" =>
          /\ jcall.ret <=> jcall.found
          /\ jump.enabled = (jcall.ret \/ jcall.enabled)

(* C21 witness: enable() of the trigger bot failed on a bot that was not    *)
(* enabled, and enable() of the AutoJump found the window under the second  *)
(* title.                                                                   *)
C21_Witness ==
    /\ tcall.op = "enable" /\ ~tcall.ret /\ ~tcall.enabled /\ ~trigger.enabled
    /\ jcall.op = "enable" /\ jcall.ret /\ jump.enabled
    /\ jump.game_hwnd = <<Hwnd["Pixel Gun 3D - Unity"]>>

(* A burst thread was started by the step. *)
BurstStarted == BagCardinality(workers') > BagCardinality(workers)

(* C22: a tick of update() starts a burst exactly when the AutoJump is      *)
(* enabled, the jump key is down on this tick and was not down on the tick  *)
(* before, no burst thread is in flight and the game window has the focus.  *)
C22_BurstIffEdge ==
    [][ jcall'.op = "update" =>
          (BurstStarted <=> /\ jump.enabled
                            /\ last_key' /\ ~last_key
                            /\ workers = EmptyBag
                            /\ jcall'.focus) ]_vars

(* n jumps: press and release, n times. *)
Pulses(n) == [k \in 1..(2 * n) |-> IF k % 2 = 1 THEN "press" ELSE "release"]

C24_NoPulseAfterDisable == ~(jcall.op = "press" /\ jcall.w.disabled)

(* C25: at most one burst thread is in flight. *)
C25_OneBurstInFlight == BagCardinality(workers) <= 1

(* C30: is_jumping is True whenever a burst thread is in flight. *)
C30_JumpingWhileInFlight == workers # EmptyBag => jump.is_jumping

C28_AmmoCheckOnNewestSnapshot ==
    (h.op = "tick" /\ h.shot /\ log.event # "none") =>
        LET rule == MatchingRules(presets, current_preset, log.from)[log.rule]
        IN Get(rule, "check_ammo", TRUE) =>
              (log.event = "swap" <=> ClipOf(last_tick.snap, rule["to"]) > 0)

(* The smallest slot of a set: the first in the order of a snapshot. *)
FirstSlot(S) == CHOOSE s \in S : \A t \in S : s <= t

(* C29: last_weapon_id is 1 at first; update() on an active engine takes as *)
(* current the weapon it is given; given none, the first slot in the order  *)
(* of the snapshot that is in the previous and in the new snapshot with a   *)
(* smaller clip in the new one, and last_weapon_id if there is none.        *)
C29_ActiveSlotInference ==
    /\ [](h.op = "init" => last_weapon_id = InitialWeaponId)
    /\ [][ (h'.op = "call" /\ Active(Engine)) =>
             ucall'.cur = IF ucall'.given # NoWeapon THEN ucall'.given
                          ELSE IF Decreased(last_ammo, ucall'.snap) # {}
                          THEN FirstSlot(Decreased(last_ammo, ucall'.snap))
                          ELSE last_weapon_id ]_vars

(* C29 witness: given no weapon, update() took slot 3, whose clip it found  *)
(* emptied, as current; slot 3 is neither the first value of last_weapon_id *)
(* nor a weapon update() is given.                                          *)
C29_Witness ==
    /\ h.op = "call"
    /\ Active(Engine)
    /\ ucall.given = NoWeapon
    /\ ucall.cur = 3
    /\ ucall.snap[3][1] = 0

(* C26: while the tracking is on and the reader holds the handle of a game  *)
(* process that is gone, a tick tries to reconnect sooner or later, and     *)
(* every tick in that situation calls update() of the trigger bot and of    *)
(* the AutoJump.                                                            *)
C26_LossLeadsToReconnect ==
    /\ [](ptick.op = "tick" /\ ptick.down => ptick.trigger /\ ptick.jump)
    /\ (app.is_tracking /\ app.auto_reconnect /\ process.lost)
          ~> (ptick.attempted \/ ~app.is_tracking \/ ~process.lost)

(* After the step, an update() that finds the key down, on an AutoJump that *)
(* is enabled and saw the key up on the tick before, with the game window   *)
(* in the foreground, starts a burst.                                       *)
EdgeStartsBurst ==
    \A env \in JumpDesktops :
       (/\ jump.enabled
        /\ env.is_pressed /\ ~jump.was_pressed
        /\ _is_game_window_active(jump, env).ret) => jump_update(jump, env).spawn

(* C31: a burst thread that is scheduled fairly ends, whatever the methods  *)
(* called in between and the other threads do; its finally clause leaves    *)
(* is_jumping False, and after it the next edge of the key with the game    *)
(* window in the foreground starts a burst.                                 *)
C31_BurstTerminates ==
    /\ [](jcall.op = "finally" => (~jump.is_jumping /\ EdgeStartsBurst))
    /\ (Watched # {}) ~> (jcall.op = "finally" /\ jcall.w.watched)

(* C31 witness: the followed thread ended after disable() and enable() were *)
(* called, while another thread was in flight.                              *)
C31_Witness ==
    /\ jcall.op = "finally" /\ jcall.w.watched /\ jcall.w.disabled
    /\ jump.enabled
    /\ workers # EmptyBag

(* C32: at the end of every tick of update() on an enabled AutoJump         *)
(* was_pressed is the key state read on that tick; and once such a tick     *)
(* has read the key down, no later tick starts a burst as long as the key   *)
(* is down on every tick.                                                   *)
C32_EdgeConsumed ==
    /\ [](jcall.op = "update" /\ jcall.enabled => jump.was_pressed = last_key)
    /\ [][ (jcall'.op = "update" /\ held /\ last_key') => ~BurstStarted ]_vars

(* C39: the jump key is down for a burst thread exactly between its press   *)
(* and its release; the step after a press is the release, whatever         *)
(* disable() and enable() did in between, and a thread that ends has        *)
(* released every press it sent.                                            *)
C39_PressThenRelease ==
    /\ \A w \in BagToSet(workers) : (Len(w.sent) % 2 = 1) <=> (w.pc = "release")
    /\ jcall.op = "release" =>
          /\ Len(jcall.w.sent) % 2 = 0
          /\ jcall.w.sent[Len(jcall.w.sent)] = "release"
    /\ jcall.op = "finally" => jcall.w.sent = Pulses(Len(jcall.w.sent) \div 2)

(* C39 witness: a thread sent the release of its first jump while the      *)
(* AutoJump was disabled, by a disable() that came after the thread had     *)
(* found it enabled.                                                        *)
C39_Witness ==
    /\ jcall.op = "release"
    /\ ~jcall.enabled /\ jcall.w.disabled
    /\ jcall.w.sent = <<"press", "release">>

(* The sleeps of the tick on the thread of the timer: those of the swap     *)
(* the tick made.                                                           *)
TickSleeps ==
    IF keys # << >> THEN _switch_weapon_sleeps(log.to, log.qs) ELSE << >>

(* C33: a tick of the timer does not sleep: update() of the macro engine    *)
(* returns without a wait also when the tick made a swap with a quick       *)
(* switch.                                                                  *)
C33_PollerNeverSleeps == h.op = "tick" => TickSleeps = << >>

(* update() made a swap to a slot outside 1..6. *)
InvalidSwap ==
    /\ h.op = "update" /\ h.shot
    /\ log.event \in {"swap", "swap [FALLBACK]"}
    /\ (log.to < MinSlot \/ log.to > MaxSlot)

(* C34: a swap to a slot outside 1..6 sends no key, not the knife key of a  *)
(* quick switch either, and leaves the engine enabled; the next shot of a   *)
(* slot with rules is handled.                                              *)
C34_InvalidSlotIgnored ==
    /\ [](InvalidSwap => (keys = << >> /\ enabled))
    /\ [][ (/\ InvalidSwap
            /\ h'.op = "update" /\ h'.shot
            /\ HasRules(presets, current_preset, h'.cur)) => log'.event # "none" ]_vars

(* C34 witness: the second shot in a row was handled, again with a swap to  *)
(* a slot that does not exist, after the swap of the first to slot 7 with a *)
(* quick switch was ignored.                                                *)
C34_Witness ==
    /\ InvalidSwap
    /\ log.rule = 2 /\ log.to = 0
    /\ keys = << >> /\ enabled

-----------------------------------------------------------------------------
(* C36: cursor bounds.  Whenever update() handles a shot of a slot with     *)
(* rules, the rule looked up is one of the rules matching the slot (the     *)
(* lookup raises no IndexError), and afterwards the cursor of the slot      *)
(* points at a matching rule and its counter is at least 0 and smaller than *)
(* the repeat_count of that rule.                                           *)
C36_CursorBounds ==
    (h.op = "update" /\ h.shot /\ HasRules(presets, current_preset, h.cur)) =>
        /\ log # IndexError
        /\ LET matching_rules == MatchingRules(presets, current_preset, h.cur)
               rotation == rule_rotation[h.cur]
           IN /\ rotation.current_rule_idx < Len(matching_rules)
              /\ rotation.counter >= 0
              /\ rotation.counter <
                     Get(matching_rules[rotation.current_rule_idx + 1],
                         "repeat_count", DefaultRepeatCount)

-----------------------------------------------------------------------------
(* C37: ammunition used while the engine was disabled causes no swap.  The  *)
(* first tick the engine handles after ticks it did not handle detects no   *)
(* shot: the snapshot it would compare with is older than the tick before.  *)
C37_NoShotFromStaleSnapshot ==
    [][ (h'.op = "tick" /\ Active(Engine) /\ ~last_tick.handled) => ~h'.shot ]_vars

-----------------------------------------------------------------------------
(* The cursor a rotation table holds for a slot, None without one. *)
StoredCursor(rot, s) == IF s \in DOMAIN rot THEN <<rot[s]>> ELSE << >>

(* The keys one swap sends: nothing, one key, or the knife key and a key. *)
OneSwap(sent) ==
    \/ Len(sent) <= 1
    \/ Len(sent) = 2 /\ sent[1] = _get_weapon_key(knife_slot)

(* C38: at most one rule is applied per update tick.  Whatever the number   *)
(* of slots whose clip went down, the tick changes the cursor of no slot    *)
(* but the one it took as fired, and it sends the keys of one swap at most; *)
(* when the clips of several slots went down, one of them is taken as fired *)
(* and a shot is detected for it.                                           *)
C38_OneRulePerTick ==
    [][ h'.op = "tick" =>
          /\ \A s \in MinSlot..MaxSlot :
                s # h'.cur => StoredCursor(rule_rotation', s) = StoredCursor(rule_rotation, s)
          /\ OneSwap(keys')
          /\ h'.several => /\ h'.shot
                           /\ h'.cur \in Decreased(last_ammo, last_tick'.snap) ]_vars

(* C38 witness: the clips of two slots with rules went down before the same *)
(* tick, which made a quick switch for one of them.                         *)
C38_Witness ==
    /\ h.op = "tick"
    /\ h.several
    /\ h.shot
    /\ Len(keys) = 2

-----------------------------------------------------------------------------
(* C35: the reticle reader logs at info level on a change of its answer     *)
(* only.  A call of read_crosshair_on_enemy that follows another and gives  *)
(* the same answer, True or False, a failed chain included, logs nothing at *)
(* info level.                                                              *)
C35_InfoOnTransitionOnly ==
    [][ (/\ call.op = "read_crosshair_on_enemy"
         /\ call'.op = "read_crosshair_on_enemy"
         /\ call'.ret = call.ret)
          => read_crosshair_on_enemy_info(reader, call'.mem) = << >> ]_vars

=============================================================================
